---------------------------- MODULE Spec2Model ----------------------------
(***************************************************************************)
(* A model of xmlstore's TypedStore: a schema (tree of elements with       *)
(* conditions), the tree of live Nodes built from it, the store's event    *)
(* fan-out to its interfaces and the recomputation of visibility through   *)
(* the schema's dependency index.                                          *)
(*                                                                         *)
(* Paths are kept split on '/', as the code splits them before use: the    *)
(* absolute path "/a/b" is <<"", "a", "b">>, the relative "../b" is        *)
(* <<"..", "b">>.  A live node is addressed by its position: the sequence  *)
(* of 1-based indices into the children lists from the root.               *)
(***************************************************************************)
EXTENDS Integers, Sequences, FiniteSets, TLC

\* ------------------------------------------------------------------------
\* Bounds of the model
\* ------------------------------------------------------------------------

\* Most same-named siblings the model adds below one parent.
MaxClones == 2

\* ------------------------------------------------------------------------
\* Values
\* ------------------------------------------------------------------------

\* Python's None: no value, no node, no result.
None == "None"

\* The typed values a node may hold (strings accepted by the type "string").
Values == {"a", "b"}

\* TypedStore.defaultstore when no default store is attached (no Node tree).
NoStore == [el |-> 0]

\* TypedStore.context after __init__ and after setStore: an empty dictionary
\* (context.get('container') is None).
NoContext == [container |-> None]

\* Secondary ids given to repeatable nodes; "" is "no id" (getSecondaryId).
SecIds == {"p"}

\* ------------------------------------------------------------------------
\* Schema documents (the input of Schema.__init__)
\* ------------------------------------------------------------------------

\* A <condition type="eq" variable=... value=.../> element.
CondEq(variable, value) ==
    [type |-> "eq", variable |-> variable, value |-> value, kids |-> <<>>, source |-> ""]

\* A <condition type="ne" variable=... value=.../> element.
CondNe(variable, value) ==
    [type |-> "ne", variable |-> variable, value |-> value, kids |-> <<>>, source |-> ""]

\* A <condition type="and"> element with its child conditions.
CondAnd(kids) ==
    [type |-> "and", variable |-> <<>>, value |-> "", kids |-> kids, source |-> ""]

\* A <condition type="or"> element with its child conditions.
CondOr(kids) ==
    [type |-> "or", variable |-> <<>>, value |-> "", kids |-> kids, source |-> ""]

\* A condition with the attribute source: it is about the store of that
\* name among the other stores.
CondSource(cond, source) == [cond EXCEPT !.source = source]

\* An element without a <condition> child.
NoCond == [type |-> "none", variable |-> <<>>, value |-> "", kids |-> <<>>, source |-> ""]

\* An <element name=... type=...> of a schema below element `parent`
\* (0: the document element).  maxOccurs -1 is "unbounded"; unit <<>> is
\* no "[path]" unit; minInclusive and maxInclusive "" are absent
\* attributes; options <<>> is no <options> child; grouponly is the set of
\* the names in the attribute grouponly (none).
Element(name, parent, type) ==
    [name |-> name, parent |-> parent, type |-> type,
     minOccurs |-> 1, maxOccurs |-> 1, hidden |-> FALSE, readonly |-> FALSE,
     unit |-> <<>>, cond |-> NoCond,
     minInclusive |-> "", maxInclusive |-> "", options |-> <<>>, grouponly |-> {}]

\* An <option value=...> of an <options> element, with its attribute
\* disabled.
Option(value, disabled) == [value |-> value, disabled |-> disabled]

\* A container or variable shown only while `cond` holds.
Conditional(name, parent, type, cond) ==
    [Element(name, parent, type) EXCEPT !.cond = cond]

\* An element that may occur any number of times (minOccurs=0,
\* maxOccurs=unbounded).
Repeatable(name, parent, type) ==
    [Element(name, parent, type) EXCEPT !.minOccurs = 0, !.maxOccurs = -1]

\* Schema 1: one controlling variable "mode" with dependants that use a
\* relative path with a dot, an absolute path, nested and/or conditions, a
\* condition that names "mode" twice, and a unit that follows "mode".
SchemaPlain ==
    << Element("root", 0, ""),
       Conditional("x1", 1, "",
                   CondAnd(<< CondEq(<<".", "mode">>, "a"),
                              CondNe(<<".", "U">>, "b") >>)),
       [Element("U", 1, "string") EXCEPT !.unit = <<"mode">>],
       Conditional("x2", 1, "", CondEq(<<"", "mode">>, "b")),
       Element("mode", 1, "string"),
       Conditional("x3", 1, "",
                   CondOr(<< CondEq(<<".", "mode">>, "a"),
                             CondAnd(<< CondEq(<<"", "mode">>, "a") >>) >>)) >>

\* Schema 2: a repeatable container whose child "extra" depends on its
\* sibling "mode" (by a relative path without dots).
SchemaRep ==
    << Element("root", 0, ""),
       Repeatable("rep", 1, ""),
       Element("mode", 2, "string"),
       Conditional("extra", 2, "", CondEq(<<"mode">>, "a")) >>

\* Schema 3: a variable and a repeatable variable, both with defaults in a
\* default store, and a container that depends on the variable.
SchemaDef ==
    << Element("root", 0, ""),
       Element("plain", 1, "string"),
       Repeatable("item", 1, "string"),
       Conditional("dep", 1, "", CondEq(<<".", "plain">>, "a")) >>

\* Schema 4: a variable inside a container, which depends on a variable
\* one level up (a relative path with two dots), and a variable that has a
\* child as well as a value.
SchemaGroup ==
    << Element("root", 0, ""),
       Element("mode", 1, "string"),
       Element("grp", 1, ""),
       Conditional("leaf", 3, "string", CondNe(<<"..", "mode">>, "a")),
       Element("dual", 1, "string"),
       Element("sub", 5, "") >>

\* Schema 5: a repeatable container whose child "gextra" depends on the
\* top-level "gmode" (by an absolute path).
SchemaRepAbs ==
    << Element("root", 0, ""),
       Element("gmode", 1, "string"),
       Repeatable("rep", 1, ""),
       Conditional("gextra", 3, "", CondEq(<<"", "gmode">>, "a")) >>

\* The schemas the model is run on.
Schemas == << SchemaPlain, SchemaRep, SchemaDef, SchemaGroup, SchemaRepAbs >>

\* ------------------------------------------------------------------------
\* Schema: navigation in the schema document
\* ------------------------------------------------------------------------

\* The <element> children of schema element e, in document order.
ElemChildren(S, e) ==
    LET ids == {c \in 1..Len(S) : S[c].parent = e}
        F[n \in 0..Len(S)] ==
            IF n = 0 THEN <<>>
            ELSE IF n \in ids THEN Append(F[n - 1], n) ELSE F[n - 1]
    IN  F[Len(S)]

\* Schema.getNodeFromPath: the element reached from `root` along `path`
\* ('..' goes up, '' and '.' stay), 0 when a name is not found.
RECURSIVE getNodeFromPath(_, _, _)
getNodeFromPath(S, path, root) ==
    IF path = <<>> THEN root
    ELSE IF root = 0 THEN 0
    ELSE LET childname == Head(path) IN
         IF childname = ".." THEN getNodeFromPath(S, Tail(path), S[root].parent)
         ELSE IF childname = "" \/ childname = "." THEN getNodeFromPath(S, Tail(path), root)
         ELSE LET found == {c \in 1..Len(S) : S[c].parent = root /\ S[c].name = childname}
              IN  IF found = {} THEN 0
                  ELSE getNodeFromPath(S, Tail(path), CHOOSE c \in found : \A d \in found : c <= d)

\* Schema.getPathFromNode: the names from below the document element down
\* to the element.
RECURSIVE getPathFromNode(_, _)
getPathFromNode(S, node) ==
    IF node = 0 \/ S[node].parent = 0 THEN <<>>
    ELSE Append(getPathFromNode(S, S[node].parent), S[node].name)

\* The length of the longest common prefix of two name lists.
RECURSIVE CommonPrefix(_, _)
CommonPrefix(p, q) ==
    IF p = <<>> \/ q = <<>> \/ Head(p) # Head(q) THEN 0
    ELSE 1 + CommonPrefix(Tail(p), Tail(q))

\* n times the path component '..'.
Ups(n) == [i \in 1..n |-> ".."]

\* The element a variable path of a condition or unit of `sourcenode`
\* refers to: from the document element when absolute, otherwise from the
\* parent of the source.
TargetOf(S, sourcenode, targetpath) ==
    getNodeFromPath(S, targetpath,
                    IF Head(targetpath) = "" THEN 1 ELSE S[sourcenode].parent)

\* A variant of getReversePath that takes the path relative to the target
\* itself, not to its parent.
getReversePath_FromTarget(S, sourcenode, targetpath) ==
    LET abssource == getPathFromNode(S, sourcenode)
        targetnode == TargetOf(S, sourcenode, targetpath)
        abstargetpath == getPathFromNode(S, targetnode)
        dotted == \E i \in 1..Len(targetpath) : targetpath[i] \in {".", ".."}
        istart == CommonPrefix(abstargetpath, abssource)
    IN  IF dotted
        THEN Ups(Len(abstargetpath) - istart) \o SubSeq(abssource, istart + 1, Len(abssource))
        ELSE <<"">> \o abssource

\* Schema.getReversePath: the path from the target back to the source:
\* relative to the target's parent when the target path used '.' or '..',
\* otherwise the absolute path of the source.
getReversePath(S, sourcenode, targetpath) ==
    LET abssource == getPathFromNode(S, sourcenode)
        targetnode == TargetOf(S, sourcenode, targetpath)
        full == getPathFromNode(S, targetnode)
        abstargetpath == SubSeq(full, 1, Len(full) - 1)
        dotted == \E i \in 1..Len(targetpath) : targetpath[i] \in {".", ".."}
        istart == CommonPrefix(abstargetpath, abssource)
    IN  IF dotted
        THEN Ups(Len(abstargetpath) - istart) \o SubSeq(abssource, istart + 1, Len(abssource))
        ELSE <<"">> \o abssource

\* Concatenation of a sequence of sequences.
RECURSIVE Flatten(_)
Flatten(ss) == IF ss = <<>> THEN <<>> ELSE Head(ss) \o Flatten(Tail(ss))

\* Schema.buildDependencies on a condition element: its own variable is
\* registered first, then those of its child conditions in document order;
\* a condition with the attribute source is passed over with all below it.
RECURSIVE CondDependencies(_, _, _)
CondDependencies(S, curowner, cond) ==
    IF cond.type = "none" \/ cond.source # "" THEN <<>>
    ELSE (IF cond.variable # <<>>
          THEN << [target |-> TargetOf(S, curowner, cond.variable),
                   path |-> getReversePath(S, curowner, cond.variable),
                   type |-> "visibility"] >>
          ELSE <<>>)
         \o Flatten([i \in 1..Len(cond.kids) |-> CondDependencies(S, curowner, cond.kids[i])])

\* Schema.buildDependencies below element `root`: for each child element
\* its own subtree first (its condition, then its child elements), then its
\* "[path]" unit.  The result lists the registrations in the order in which
\* registerDependency is called.
RECURSIVE buildDependencies(_, _)
buildDependencies(S, root) ==
    LET ch == ElemChildren(S, root) IN
    Flatten([i \in 1..Len(ch) |->
        CondDependencies(S, ch[i], S[ch[i]].cond)
        \o buildDependencies(S, ch[i])
        \o (IF S[ch[i]].unit # <<>>
            THEN << [target |-> TargetOf(S, ch[i], S[ch[i]].unit),
                     path |-> getReversePath(S, ch[i], S[ch[i]].unit),
                     type |-> "unit"] >>
            ELSE <<>>)])

\* Schema.registerDependency: the <dependentvariable> entries below element
\* `node`, in registration order.
registerDependency(S, node) ==
    LET all == buildDependencies(S, 1)
        Hit(d) == d.target = node
    IN  SelectSeq(all, Hit)

\* Schema.__init__: the schema document S, and below each of its elements
\* the <dependentvariable> entries that buildDependencies put there;
\* `tests` are the <test> elements of its <validation> element (none) and
\* `version` is the version attribute of its root (Schema.getVersion).
Schema(S) ==
    [elements |-> S,
     dependentvariables |-> [e \in 1..Len(S) |-> registerDependency(S, e)],
     tests |-> <<>>,
     version |-> ""]


\* Sequencing of statements: F applied to the value of e, with e evaluated
\* once, before F.
Then(e, F(_)) == CHOOSE r \in {F(s) : s \in {e}} : TRUE


\* ------------------------------------------------------------------------
\* State
\* ------------------------------------------------------------------------

VARIABLES
    schema,        \* TypedStore.schema: the schema with its dependency entries
    tree,          \* TypedStore.root: the tree of live Nodes
    defaultstore,  \* TypedStore.defaultstore: its Node tree, or NoStore
    interfaces,    \* TypedStore.interfaces: the connected interfaces
    changed,       \* TypedStore.changed
    validnodes,    \* TypedStore.validnodes: the nodes found valid by validate
    convertorsfrom, \* SchemaInfo.convertorsfrom: the registered direct converters
    context,       \* TypedStore.context: the container the values came from
    objects,       \* the reference-counted objects beside the store
    log,           \* the calls the store made to its interfaces in the last operation
    lastop,        \* the last operation and its arguments
    ret            \* what the last operation returned: "True", "False", "None",
                   \* "node" (addChild's new child) or "raised" (an exception)

vars == <<schema, tree, defaultstore, interfaces, changed, validnodes, convertorsfrom,
          context, objects, log, lastop, ret>>

\* The schema document of the store.
Sch == schema.elements

\* ------------------------------------------------------------------------
\* Node: the tree of live nodes
\* ------------------------------------------------------------------------

\* Node.canHaveValue: the element has a type.
canHaveValue(e) == Sch[e].type # ""

\* Node.canHaveChildren: the element has child elements.
canHaveChildren(e) == \E c \in 1..Len(Sch) : Sch[c].parent = e

\* Node.canHaveClones: maxOccurs is neither absent nor 1.
canHaveClones(e) == Sch[e].maxOccurs # 1

\* Node.__init__ without value entries below it: one child Node per child
\* element for each occurrence up to minOccurs, the node visible unless the
\* element says hidden="True".  `vr` is the node's value root: "none", "att"
\* (an element below the parent's value root) or "det" (an element whose
\* parent element is no longer the parent's value root); `vn` tells whether
\* the node has a value node, `val` what that node's text loads to; `id` is
\* the value root's id attribute.
RECURSIVE NewNode(_, _, _)
NewNode(e, hasroot, id) ==
    LET ch == ElemChildren(Sch, e) IN
    [el |-> e,
     visible |-> ~Sch[e].hidden,
     vr |-> IF hasroot THEN "att" ELSE "none",
     vn |-> hasroot /\ ~(canHaveValue(e) /\ ch # <<>>),
     val |-> None,
     id |-> id,
     children |-> Flatten([i \in 1..Len(ch) |->
                     IF Sch[ch[i]].minOccurs >= 1
                     THEN << NewNode(ch[i], FALSE, "") >> ELSE <<>>])]

\* The node at position p of tree t.
RECURSIVE NodeAt(_, _)
NodeAt(t, p) == IF p = <<>> THEN t ELSE NodeAt(t.children[Head(p)], Tail(p))

\* Tree t with the node at position p replaced by n.
RECURSIVE Replace(_, _, _)
Replace(t, p, n) ==
    IF p = <<>> THEN n
    ELSE [t EXCEPT !.children[Head(p)] = Replace(@, Tail(p), n)]

\* Node.parent: the position of the parent.
Parent(p) == SubSeq(p, 1, Len(p) - 1)

\* Node.getDescendants: the positions of the node at p and of all nodes
\* below it, parents before children, children in list order.
RECURSIVE getDescendants(_, _)
getDescendants(t, p) ==
    <<p>> \o Flatten([i \in 1..Len(NodeAt(t, p).children) |->
                         getDescendants(t, Append(p, i))])

\* The positions of all live nodes of tree t.
Positions(t) == {getDescendants(t, <<>>)[i] : i \in 1..Len(getDescendants(t, <<>>))}

\* Node.getId: the name of the node's element.
getId(n) == Sch[n.el].name

\* The index of the first child of node n named childname, 0 when there is
\* none.
FirstChild(n, childname) ==
    LET hit == {i \in 1..Len(n.children) : getId(n.children[i]) = childname}
    IN  IF hit = {} THEN 0 ELSE CHOOSE i \in hit : \A j \in hit : i <= j

\* Node.getLocation (without bracketed suffixes): the position reached from
\* the node at p along `location`; None when a child is not found or the
\* path leaves the tree.
RECURSIVE getLocation(_, _, _)
getLocation(t, p, location) ==
    IF location = <<>> THEN p
    ELSE LET childname == Head(location) IN
         IF childname = ".."
         THEN IF p = <<>> THEN None ELSE getLocation(t, Parent(p), Tail(location))
         ELSE IF childname = "" \/ childname = "." THEN getLocation(t, p, Tail(location))
         ELSE LET i == FirstChild(NodeAt(t, p), childname)
              IN  IF i = 0 THEN None ELSE getLocation(t, Append(p, i), Tail(location))

\* Node.isHidden: the node or one of its ancestors is not visible.
RECURSIVE isHidden(_, _)
isHidden(t, p) ==
    \/ ~NodeAt(t, p).visible
    \/ p # <<>> /\ isHidden(t, Parent(p))

\* Node.getValue(usedefault=False): what the value node loads to, None
\* without a value node.
getValue(t, p) == IF NodeAt(t, p).vn THEN NodeAt(t, p).val ELSE None

\* Node.hasValue
hasValue(t, p) == NodeAt(t, p).vn /\ getValue(t, p) # None

\* The occurrence index (from 0) of the node at p among its same-named
\* siblings (Node.getLocationMultiple([name]) of the parent).
OccurrenceIndex(t, p) ==
    LET sibs == NodeAt(t, Parent(p)).children
        me == p[Len(p)]
    IN  Cardinality({i \in 1..(me - 1) : sibs[i].el = sibs[me].el})

\* Node.getChildByNumber(create=False): the index in the children list of
\* the index-th (from 0) child named childname, 0 when there is none.
getChildByNumber(n, childname, index) ==
    LET hit == {i \in 1..Len(n.children) :
                   /\ getId(n.children[i]) = childname
                   /\ Cardinality({j \in 1..(i - 1) : getId(n.children[j]) = childname}) = index}
    IN  IF hit = {} THEN 0 ELSE CHOOSE i \in hit : TRUE

\* Node.getChildById(create=False): the index in the children list of the
\* first child named childname with that secondary id, 0 when there is none.
getChildById(n, childname, id) ==
    LET hit == {i \in 1..Len(n.children) :
                   getId(n.children[i]) = childname /\ n.children[i].id = id}
    IN  IF hit = {} THEN 0 ELSE CHOOSE i \in hit : \A j \in hit : i <= j

\* A variant of mapForeignNode that matches every clone by its occurrence
\* index, whether or not it has a secondary id.
RECURSIVE mapForeignNode_ByNumber(_, _, _, _, _)
mapForeignNode_ByNumber(own, foreign, p, k, cur) ==
    IF k > Len(p) THEN cur
    ELSE LET fn == NodeAt(foreign, SubSeq(p, 1, k))
             i == getChildByNumber(NodeAt(own, cur), getId(fn),
                                   IF canHaveClones(fn.el)
                                   THEN OccurrenceIndex(foreign, SubSeq(p, 1, k)) ELSE 0)
         IN  IF i = 0 THEN None
             ELSE mapForeignNode_ByNumber(own, foreign, p, k + 1, Append(cur, i))

\* TypedStore.mapForeignNode: the position in tree `own` of the node that
\* corresponds to the node at position p of tree `foreign`: along the path
\* a node that cannot have clones is matched by index 0, a clone by its
\* secondary id or, without one, by its occurrence index.  None when there
\* is no such node.
RECURSIVE mapForeignNode(_, _, _, _, _)
mapForeignNode(own, foreign, p, k, cur) ==
    IF k > Len(p) THEN cur
    ELSE LET fn == NodeAt(foreign, SubSeq(p, 1, k))
             name == getId(fn)
             i == IF ~canHaveClones(fn.el)
                  THEN getChildByNumber(NodeAt(own, cur), name, 0)
                  ELSE IF fn.id = ""
                  THEN getChildByNumber(NodeAt(own, cur), name,
                                        OccurrenceIndex(foreign, SubSeq(p, 1, k)))
                  ELSE getChildById(NodeAt(own, cur), name, fn.id)
         IN  IF i = 0 THEN None
             ELSE mapForeignNode(own, foreign, p, k + 1, Append(cur, i))

\* TypedStore.defaultstore as an operation on tree t reads it.  An
\* operation that attaches or changes the default store and then goes on
\* works on a tree whose root carries the default store as it is by then
\* (WithDefaultStore); any other operation reads the variable.
defaultstoreOf(t) == IF "defaultstore" \in DOMAIN t THEN t.defaultstore ELSE defaultstore

\* Tree t for an operation that goes on after it made ds the default store.
WithDefaultStore(t, ds) ==
    [el |-> t.el, visible |-> t.visible, vr |-> t.vr, vn |-> t.vn, val |-> t.val,
     id |-> t.id, children |-> t.children, defaultstore |-> ds]

\* The tree such an operation leaves.
WithoutDefaultStore(t) ==
    [el |-> t.el, visible |-> t.visible, vr |-> t.vr, vn |-> t.vn, val |-> t.val,
     id |-> t.id, children |-> t.children]

\* Node.getDefaultValue: the value of the corresponding node of the default
\* store (which has no default store of its own); None without a default
\* store or without a corresponding node.
getDefaultValue(t, p) ==
    IF defaultstoreOf(t) = NoStore THEN None
    ELSE LET defaultnode == mapForeignNode(defaultstoreOf(t), t, p, 1, <<>>)
         IN  IF defaultnode = None THEN None ELSE getValue(defaultstoreOf(t), defaultnode)

\* Node.getValue(usedefault=True)
getValueOrDefault(t, p) ==
    IF getValue(t, p) # None THEN getValue(t, p) ELSE getDefaultValue(t, p)

\* Node.hasDefaultValue: no value of its own, or one equal to the default.
hasDefaultValue(t, p) ==
    getValue(t, p) = None \/ getValue(t, p) = getDefaultValue(t, p)

RECURSIVE evalCondition(_, _, _)
RECURSIVE evalCondition_FailClosed(_, _, _)
RECURSIVE evalChildConditions(_, _, _, _, _)

\* The loop over the child conditions of an and/or condition, from child i
\* on: it returns at the first child that is True (or) or False (and).
\* `done` holds the evaluations of the children before i.
evalChildConditions(t, cond, ownernode, i, done) ==
    IF i > Len(cond.kids) THEN [result |-> cond.type = "and", kids |-> done]
    ELSE LET r == evalCondition(t, cond.kids[i], ownernode) IN
         IF r.result /\ cond.type = "or" THEN [result |-> TRUE, kids |-> Append(done, r)]
         ELSE IF ~r.result /\ cond.type = "and"
              THEN [result |-> FALSE, kids |-> Append(done, r)]
         ELSE evalChildConditions(t, cond, ownernode, i + 1, Append(done, r))

\* A variant of checkCondition in which an eq/ne condition does not hold
\* when the referenced node has no value.
evalCondition_FailClosed(t, cond, ownernode) ==
    IF cond.type \in {"eq", "ne"}
    THEN LET refnode == IF Head(cond.variable) = "" THEN <<>> ELSE Parent(ownernode)
             node == getLocation(t, refnode, cond.variable)
             curvalue == getValueOrDefault(t, node)
         IN  [result |-> IF curvalue = None THEN FALSE
                         ELSE IF cond.type = "eq" THEN curvalue = cond.value
                         ELSE curvalue # cond.value,
              kids |-> <<>>]
    ELSE evalChildConditions(t, cond, ownernode, 1, <<>>)

\* TypedStore.checkCondition with the calls it makes for the child
\* conditions: eq/ne compare the current-or-default value of the referenced
\* node with the literal and hold when that node has no value; and/or go
\* through the child conditions in document order.  `result` is what the
\* call returns, `kids` the evaluations of the child conditions it called
\* checkCondition for.  A condition about another store holds when the
\* store has no store of that name (it was made without other stores).
evalCondition(t, cond, ownernode) ==
    IF cond.source # "" THEN [result |-> TRUE, kids |-> <<>>]
    ELSE IF cond.type \in {"eq", "ne"}
    THEN LET refnode == IF Head(cond.variable) = "" THEN <<>> ELSE Parent(ownernode)
             node == getLocation(t, refnode, cond.variable)
             curvalue == getValueOrDefault(t, node)
         IN  [result |-> IF curvalue = None THEN TRUE
                         ELSE IF cond.type = "eq" THEN curvalue = cond.value
                         ELSE curvalue # cond.value,
              kids |-> <<>>]
    ELSE evalChildConditions(t, cond, ownernode, 1, <<>>)

\* What TypedStore.checkCondition returns.
checkCondition(t, cond, ownernode) == evalCondition(t, cond, ownernode).result


\* ------------------------------------------------------------------------
\* TypedStoreInterface: what the store tells its interfaces
\* ------------------------------------------------------------------------

\* The events an interface's handlers can be connected to
\* (TypedStoreInterface.connect).
EventNames ==
    {"beforeChange", "afterChange", "beforeVisibilityChange", "afterVisibilityChange"}

\* TypedStoreInterface.__init__ with interfacetype 'gui', followed by
\* connect() for every event.
TypedStoreInterface(showhidden, omitgroupers, processDefaultChange) ==
    [showhidden |-> showhidden, omitgroupers |-> omitgroupers,
     processDefaultChange |-> processDefaultChange, interfacetype |-> "gui",
     handlers |-> EventNames]

\* TypedStoreInterface.__init__ with the defaults for omitgroupers and
\* processDefaultChange.
Interface(showhidden) == TypedStoreInterface(showhidden, FALSE, 0)

\* TypedStoreInterface.blockNotifyOfHiddenNodes
blockNotifyOfHiddenNodes(i) == ~interfaces[i].showhidden

\* TypedStoreInterface.isGrouper for the Node n: the interface leaves
\* groupers out and the node's grouponly attribute names 'True' or the type
\* of the interface.
isGrouper(iface, n) ==
    /\ iface.omitgroupers
    /\ ("True" \in Sch[n.el].grouponly \/ iface.interfacetype \in Sch[n.el].grouponly)

\* TypedStoreInterface.getChildren for the Node n at position p: the
\* positions of its children that are visible (or all, with showhidden), a
\* grouper among them replaced by what getChildren gives for it.
RECURSIVE getChildrenOf(_, _, _)
getChildrenOf(iface, n, p) ==
    Flatten([k \in 1..Len(n.children) |->
        LET child == n.children[k] IN
        IF child.visible \/ iface.showhidden
        THEN IF isGrouper(iface, child) THEN getChildrenOf(iface, child, Append(p, k))
             ELSE << Append(p, k) >>
        ELSE <<>>])

\* TypedStoreInterface.getChildren
getChildren(iface, t, p) == getChildrenOf(iface, NodeAt(t, p), p)

\* TypedStoreInterface.getChildCount, the loop from child k on with the
\* count so far.
RECURSIVE getChildCountFrom(_, _, _, _)
getChildCountFrom(iface, n, k, childcount) ==
    IF k > Len(n.children) THEN childcount
    ELSE LET child == n.children[k] IN
         getChildCountFrom(iface, n, k + 1,
             IF child.visible \/ iface.showhidden
             THEN IF isGrouper(iface, child)
                  THEN childcount + getChildCountFrom(iface, child, 1, 0)
                  ELSE childcount + 1
             ELSE childcount)

\* TypedStoreInterface.getChildCount
getChildCount(iface, t, p) == getChildCountFrom(iface, NodeAt(t, p), 1, 0)

\* TypedStoreInterface.getChildByIndex, the loop from child k on: the
\* child found (node), or the index that is left (what returnindex=True
\* returns; without it the call returns None).
RECURSIVE getChildByIndexFrom(_, _, _, _, _)
getChildByIndexFrom(iface, n, p, k, index) ==
    IF k > Len(n.children) THEN [found |-> FALSE, node |-> <<>>, index |-> index]
    ELSE LET child == n.children[k] IN
         IF child.visible \/ iface.showhidden
         THEN IF isGrouper(iface, child)
              THEN Then(getChildByIndexFrom(iface, child, Append(p, k), 1, index), LAMBDA r :
                   IF r.found THEN r
                   ELSE getChildByIndexFrom(iface, n, p, k + 1, r.index))
              ELSE IF index = 0 THEN [found |-> TRUE, node |-> Append(p, k), index |-> 0]
              ELSE getChildByIndexFrom(iface, n, p, k + 1, index - 1)
         ELSE getChildByIndexFrom(iface, n, p, k + 1, index)

\* TypedStoreInterface.getChildByIndex(node, index)
getChildByIndex(iface, t, p, index) == getChildByIndexFrom(iface, NodeAt(t, p), p, 1, index)

\* TypedStoreInterface.getParent, of a node other than the root: the
\* nearest node above that is no grouper.
RECURSIVE getParent(_, _, _)
getParent(iface, t, p) ==
    LET par == Parent(p) IN
    IF par # <<>> /\ isGrouper(iface, NodeAt(t, par)) THEN getParent(iface, t, par) ELSE par

\* TypedStoreInterface.getOwnIndex, the loop over the siblings before the
\* node (futureindex is None for a node in the tree).
RECURSIVE getOwnIndexFrom(_, _, _, _, _)
getOwnIndexFrom(iface, t, p, isib, ind) ==
    IF isib >= p[Len(p)] THEN ind
    ELSE LET sib == NodeAt(t, Append(Parent(p), isib)) IN
         getOwnIndexFrom(iface, t, p, isib + 1,
             IF sib.visible \/ iface.showhidden
             THEN IF isGrouper(iface, sib) THEN ind + getChildCountFrom(iface, sib, 1, 0)
                  ELSE ind + 1
             ELSE ind)

\* A variant of getOwnIndex that counts from the node's own parent, grouper
\* or not.
getOwnIndex_WithinParent(iface, t, p) == getOwnIndexFrom(iface, t, p, 1, 0)

\* TypedStoreInterface.getOwnIndex: the index of the node among what the
\* interface shows as its siblings; below a grouper, counted on from the
\* grouper's own index.
RECURSIVE getOwnIndex(_, _, _)
getOwnIndex(iface, t, p) ==
    getOwnIndexFrom(iface, t, p, 1,
        IF Parent(p) # <<>> /\ isGrouper(iface, NodeAt(t, Parent(p)))
        THEN getOwnIndex(iface, t, Parent(p)) ELSE 0)

\* One call of the store to interface `iface`: the method called (kind), the
\* node it names (its position, and `snap`, the Node as it is at the time of
\* the call), the new value or the changed feature (value), the new
\* visibility and whether this is a show/hide rather than an insertion or
\* removal, whether the interface passed the call on to its handler
\* (delivered), what the call returned (allowed: False only when a
\* beforeChange handler denies the change), and the nodes handed to the
\* handler (nodes: the node itself, or for a grouper its children).
Event(kind, iface, node, snap, value, shownew, showhide, delivered) ==
    [kind |-> kind, iface |-> iface, node |-> node, snap |-> snap, value |-> value,
     shownew |-> shownew, showhide |-> showhide, delivered |-> delivered,
     allowed |-> TRUE, nodes |-> << node >>]

\* A variant of VisibilityDelivered that looks at the node's own parent,
\* grouper or not.
VisibilityDelivered_OwnParent(t, i, kind, p, n, showhide) ==
    /\ kind \in interfaces[i].handlers
    /\ ~(blockNotifyOfHiddenNodes(i) /\ isHidden(t, Parent(p)))
    /\ ~(blockNotifyOfHiddenNodes(i) /\ ~showhide /\ (~n.visible \/ isHidden(t, Parent(p))))
    /\ isGrouper(interfaces[i], n) => getChildrenOf(interfaces[i], n, p) # <<>>

\* TypedStoreInterface.beforeVisibilityChange / afterVisibilityChange: the
\* handler is called unless the interface hides hidden nodes and the parent
\* it shows for the node (getParent) is hidden or, for an insertion or
\* removal, the node itself is; for a grouper, unless it shows no children.
VisibilityDelivered(t, i, kind, p, n, showhide) ==
    /\ kind \in interfaces[i].handlers
    /\ ~(blockNotifyOfHiddenNodes(i) /\ isHidden(t, getParent(interfaces[i], t, p)))
    /\ ~(blockNotifyOfHiddenNodes(i) /\ ~showhide /\ (~n.visible \/ isHidden(t, Parent(p))))
    /\ isGrouper(interfaces[i], n) => getChildrenOf(interfaces[i], n, p) # <<>>

\* TypedStoreInterface.onBeforeChange / onChange: the handler is called
\* unless the interface hides hidden nodes and the node is hidden.
ChangeDelivered(t, i, kind, p) ==
    /\ kind \in interfaces[i].handlers
    /\ ~(isHidden(t, p) /\ blockNotifyOfHiddenNodes(i))

\* TypedStore.beforeVisibilityChange / afterVisibilityChange: every
\* interface is called, in the order of connection.  n is the Node named
\* (which, while it is inserted or removed, is not in the tree).
NotifyVisibility(st, kind, p, n, shownew, showhide) ==
    [st EXCEPT !.log = @ \o
        [i \in 1..Len(interfaces) |->
            [Event(kind, i, p, n, "", shownew, showhide,
                   VisibilityDelivered(st.tree, i, kind, p, n, showhide))
             EXCEPT !.nodes = IF isGrouper(interfaces[i], n)
                              THEN getChildrenOf(interfaces[i], n, p) ELSE << p >>]]]

\* Node.updateVisibility(recursive=False): the condition of the node is
\* evaluated again; when the result differs from `visible` the flag is
\* changed, between the before and the after event when notify is set.
updateVisibility(st, p, notify) ==
    LET n == NodeAt(st.tree, p)
        cond == Sch[n.el].cond
    IN  IF cond.type = "none" THEN st
        ELSE Then(checkCondition(st.tree, cond, p), LAMBDA shownew :
             IF shownew = n.visible THEN st
             ELSE LET s1 == IF notify
                            THEN NotifyVisibility(st, "beforeVisibilityChange", p, n, shownew, TRUE)
                            ELSE st
                      n2 == [n EXCEPT !.visible = shownew]
                  IN  Then([s1 EXCEPT !.tree = Replace(@, p, n2)], LAMBDA s2 :
                      IF notify
                      THEN NotifyVisibility(s2, "afterVisibilityChange", p, n2, shownew, TRUE)
                      ELSE s2))

\* updateVisibility on each position of a list, in list order; with the
\* list getDescendants(p) this is Node.updateVisibility(recursive=True).
RECURSIVE updateVisibilityEach(_, _, _)
updateVisibilityEach(st, ps, notify) ==
    IF ps = <<>> THEN st
    ELSE Then(updateVisibility(st, Head(ps), notify),
              LAMBDA s : updateVisibilityEach(s, Tail(ps), notify))

RECURSIVE onChange(_, _, _)
RECURSIVE CollectDependants(_, _, _, _, _)

\* TypedStore.updateDependantNodes, the loop over the <dependentvariable>
\* entries of the changed node: the node an entry leads to is put after the
\* nodes collected so far when it is visible now and before them when it is
\* hidden now; an entry of another type (unit) is reported as a change of
\* the node it leads to, at once.  An entry that leads to no node fails the
\* assertion (err).
CollectDependants(st, p, deps, k, depnodes) ==
    IF k > Len(deps) \/ st.err THEN [st |-> st, depnodes |-> depnodes]
    ELSE LET d == deps[k]
             refnode == IF Head(d.path) # "" THEN Parent(p) ELSE <<>>
         IN  Then(getLocation(st.tree, refnode, d.path), LAMBDA varnode :
             IF varnode = None
             THEN [st |-> [st EXCEPT !.err = TRUE], depnodes |-> depnodes]
             ELSE IF d.type = "visibility"
             THEN CollectDependants(st, p, deps, k + 1,
                      IF NodeAt(st.tree, varnode).visible
                      THEN Append(depnodes, varnode)
                      ELSE <<varnode>> \o depnodes)
             ELSE Then(onChange(st, varnode, d.type), LAMBDA s1 :
                       CollectDependants(s1, p, deps, k + 1, depnodes)))

\* A variant of updateDependantNodes that updates the visibility of the
\* nodes beside the changed node instead of that of its dependants.
updateDependantNodes_Siblings(st, p) ==
    IF p = <<>> THEN st
    ELSE updateVisibilityEach(st,
             [i \in 1..Len(NodeAt(st.tree, Parent(p)).children) |-> Append(Parent(p), i)],
             TRUE)

\* TypedStore.updateDependantNodes: the visibility of the collected nodes
\* is updated in the collected order.
updateDependantNodes(st, p) ==
    LET deps == schema.dependentvariables[NodeAt(st.tree, p).el] IN
    IF deps = <<>> THEN st
    ELSE Then(CollectDependants(st, p, deps, 1, <<>>), LAMBDA c :
              IF c.st.err THEN c.st ELSE updateVisibilityEach(c.st, c.depnodes, TRUE))

\* A variant of onChange that updates the dependants of the node before it
\* tells the interfaces.
onChange_DependantsFirst(st, p, feature) ==
    Then(updateDependantNodes([st EXCEPT !.changed = TRUE], p), LAMBDA s :
         [s EXCEPT !.log = @ \o
             [i \in 1..Len(interfaces) |->
                 Event("afterChange", i, p, NodeAt(s.tree, p), feature, FALSE, FALSE,
                       ChangeDelivered(s.tree, i, "afterChange", p))]])

\* TypedStore.onChange: the store is marked changed, every interface is
\* told, then the dependants of the node are updated.
onChange(st, p, feature) ==
    LET s1 == [st EXCEPT !.changed = TRUE,
                         !.log = @ \o
                            [i \in 1..Len(interfaces) |->
                                Event("afterChange", i, p, NodeAt(st.tree, p), feature,
                                      FALSE, FALSE,
                                      ChangeDelivered(st.tree, i, "afterChange", p))]]
    IN  Then(s1, LAMBDA s : updateDependantNodes(s, p))

\* TypedStore.onBeforeChange from interface i on: the interfaces are asked
\* in the order of connection until one denies; `deny` is the set of
\* interfaces whose beforeChange handler answers False to this change.
RECURSIVE onBeforeChange(_, _, _, _, _)
onBeforeChange(st, p, newvalue, deny, i) ==
    IF i > Len(interfaces) THEN [st |-> st, allowed |-> TRUE]
    ELSE LET asked == ChangeDelivered(st.tree, i, "beforeChange", p)
             s1 == [st EXCEPT !.log =
                       Append(@, [Event("beforeChange", i, p, NodeAt(st.tree, p), newvalue,
                                        FALSE, FALSE, asked)
                                  EXCEPT !.allowed = ~(asked /\ i \in deny)])]
         IN  Then(s1, LAMBDA s :
             IF asked /\ i \in deny THEN [st |-> s, allowed |-> FALSE]
             ELSE onBeforeChange(s, p, newvalue, deny, i + 1))


\* ------------------------------------------------------------------------
\* Node: operations that change values
\* ------------------------------------------------------------------------

\* Whether the value root of the node at p hangs in the store's document:
\* it and every value root above it is attached.
InDocument(t, p) == \A j \in 0..Len(p) : NodeAt(t, SubSeq(p, 1, j)).vr = "att"

\* The longest prefix of p whose node has a value root (the loop
\* "while root.valueroot is None" of createValueNode).
FirstWithRoot(t, p) ==
    LET has == {j \in 0..Len(p) : NodeAt(t, SubSeq(p, 1, j)).vr # "none"}
    IN  CHOOSE j \in has : \A k \in has : k <= j

\* Tree t with a value root created for each node of p after its first k.
RECURSIVE CreateRoots(_, _, _)
CreateRoots(t, p, k) ==
    IF k >= Len(p) THEN t
    ELSE LET q == SubSeq(p, 1, k + 1)
         IN  CreateRoots(Replace(t, q, [NodeAt(t, q) EXCEPT !.vr = "att"]), p, k + 1)

\* Node.createValueNode: value roots are created for the node and for each
\* ancestor that lacks one, below the nearest value root above (which must
\* hang in the document, else the assertion fails); the node's value node is
\* its value root, or a node of its own below that when the node has
\* children as well as a value (and rootonly is not set).
createValueNode(st, p, rootonly) ==
    LET n == NodeAt(st.tree, p) IN
    IF n.vn \/ (rootonly /\ n.vr # "none") THEN st
    ELSE LET k == FirstWithRoot(st.tree, p) IN
         IF ~InDocument(st.tree, SubSeq(p, 1, k)) THEN [st EXCEPT !.err = TRUE]
         ELSE LET t1 == CreateRoots(st.tree, p, k)
                  dual == canHaveValue(n.el) /\ (n.children # <<>> \/ canHaveChildren(n.el))
              IN  IF dual /\ rootonly THEN [st EXCEPT !.tree = t1]
                  ELSE [st EXCEPT !.tree = Replace(t1, p, [NodeAt(t1, p) EXCEPT !.vn = TRUE])]

\* The result of an operation: the store as it leaves it, and what it
\* returns ("raised" when an exception leaves it).
Result(st, r) == [st |-> st, ret |-> IF st.err THEN "raised" ELSE r]

\* A variant of setValue that saves the value before it asks the
\* interfaces.
setValue_SaveFirst(st, p, value, deny) ==
    IF getValue(st.tree, p) = value THEN Result(st, "False")
    ELSE Then(createValueNode(st, p, FALSE), LAMBDA s1 :
         IF s1.err THEN Result(s1, "raised")
         ELSE Then(onBeforeChange([s1 EXCEPT !.tree =
                                      Replace(@, p, [NodeAt(s1.tree, p) EXCEPT !.val = value])],
                                  p, value, deny, 1),
                   LAMBDA b :
              IF ~b.allowed THEN Result(b.st, "False")
              ELSE Then(onChange(b.st, p, "value"), LAMBDA s3 : Result(s3, "True"))))

\* A variant of setValue that creates the value node before it asks the
\* interfaces.
setValue_CreateFirst(st, p, value, deny) ==
    IF getValue(st.tree, p) = value THEN Result(st, "False")
    ELSE Then(createValueNode(st, p, FALSE), LAMBDA s1 :
         IF s1.err THEN Result(s1, "raised")
         ELSE Then(onBeforeChange(s1, p, value, deny, 1), LAMBDA b :
              IF ~b.allowed THEN Result(b.st, "False")
              ELSE LET s2 == [b.st EXCEPT !.tree =
                                 Replace(@, p, [NodeAt(b.st.tree, p) EXCEPT !.val = value])]
                   IN  Then(onChange(s2, p, "value"), LAMBDA s3 : Result(s3, "True"))))

\* A variant of setValue that does not compare the value with the current
\* one.
setValue_NoCompare(st, p, value, deny) ==
    Then(onBeforeChange(st, p, value, deny, 1), LAMBDA b :
         IF ~b.allowed THEN Result(b.st, "False")
         ELSE Then(createValueNode(b.st, p, FALSE), LAMBDA s1 :
              IF s1.err THEN Result(s1, "raised")
              ELSE LET s2 == [s1 EXCEPT !.tree =
                                 Replace(@, p, [NodeAt(s1.tree, p) EXCEPT !.val = value])]
                   IN  Then(onChange(s2, p, "value"), LAMBDA s3 : Result(s3, "True"))))

\* Node.setValue for a value other than None: nothing happens when the node
\* has that value; otherwise the interfaces are asked, and when none denies
\* the value node is created if missing, the value saved in it and the
\* change reported.
setValue(st, p, value, deny) ==
    LET curval == getValue(st.tree, p) IN
    IF curval = value THEN Result(st, "False")
    ELSE Then(onBeforeChange(st, p, value, deny, 1), LAMBDA b :
         IF ~b.allowed THEN Result(b.st, "False")
         ELSE Then(createValueNode(b.st, p, FALSE), LAMBDA s1 :
              IF s1.err THEN Result(s1, "raised")
              ELSE LET s2 == [s1 EXCEPT !.tree =
                                 Replace(@, p, [NodeAt(s1.tree, p) EXCEPT !.val = value])]
                   IN  Then(onChange(s2, p, "value"), LAMBDA s3 : Result(s3, "True"))))

\* Children whose value root hung below the removed value root of their
\* parent keep it, detached from the parent's (future) value root.
DetachChildren(n) ==
    [n EXCEPT !.children =
        [i \in 1..Len(n.children) |->
            IF n.children[i].vr = "att" THEN [n.children[i] EXCEPT !.vr = "det"]
            ELSE n.children[i]]]

\* A variant of clearValue that takes the value node out of the document
\* but keeps the node's reference to it.
clearValue_KeepNode(st, p, deny) ==
    LET n == NodeAt(st.tree, p) IN
    IF ~n.vn THEN Result(st, "True")
    ELSE IF p = <<>> THEN Result(st, "False")
    ELSE IF canHaveClones(n.el) THEN Result(st, "False")
    ELSE Then(onBeforeChange(st, p, None, deny, 1), LAMBDA b :
         IF ~b.allowed THEN Result(b.st, "False")
         ELSE LET s1 == [b.st EXCEPT !.tree = Replace(@, p, [n EXCEPT !.vr = "none"])]
              IN  Then(onChange(s1, p, "value"), LAMBDA s2 : Result(s2, "True")))

\* Node.clearValue(recursive=False, skipreadonly=False): True when there is
\* no value node; False for the root, for a node that can have clones, and
\* when an interface denies; otherwise the value node is removed from its
\* parent element (with it the value root, when they are the same element),
\* and the change is reported.
clearValue(st, p, deny) ==
    LET n == NodeAt(st.tree, p) IN
    IF ~n.vn THEN Result(st, "True")
    ELSE IF p = <<>> THEN Result(st, "False")
    ELSE IF canHaveClones(n.el) THEN Result(st, "False")
    ELSE Then(onBeforeChange(st, p, None, deny, 1), LAMBDA b :
         IF ~b.allowed THEN Result(b.st, "False")
         ELSE LET dual == canHaveValue(n.el) /\ (n.children # <<>> \/ canHaveChildren(n.el))
                  n2 == IF dual THEN [n EXCEPT !.vn = FALSE, !.val = None]
                        ELSE DetachChildren([n EXCEPT !.vr = "none", !.vn = FALSE, !.val = None])
                  s1 == [b.st EXCEPT !.tree = Replace(@, p, n2)]
              IN  Then(onChange(s1, p, "value"), LAMBDA s2 : Result(s2, "True")))


\* ------------------------------------------------------------------------
\* Node: operations that add and remove clones
\* ------------------------------------------------------------------------

\* The indices in the children list of node n of the children named
\* childname.
Named(n, childname) == {i \in 1..Len(n.children) : getId(n.children[i]) = childname}

\* The child element of element e named childname, 0 when there is none.
ChildElement(e, childname) ==
    LET hit == {c \in 1..Len(Sch) : Sch[c].parent = e /\ Sch[c].name = childname}
    IN  IF hit = {} THEN 0 ELSE CHOOSE c \in hit : \A d \in hit : c <= d

\* The list of names q from its first occurrence of `name` on.
RECURSIVE DropUntil(_, _)
DropUntil(q, name) ==
    IF q # <<>> /\ Head(q) # name THEN DropUntil(Tail(q), name) ELSE q

\* A variant of the place of the first node of a name: after all the
\* children there are.
InsertIndex_AtEnd(children, k, predecessors) == Len(children)

\* Node.addChild, the place of the first node of a name: the number of
\* children passed while the names of the template children that precede
\* the new one are not used up (names are dropped from that list up to the
\* name of the child at hand).
RECURSIVE InsertIndex(_, _, _)
InsertIndex(children, k, predecessors) ==
    IF k > Len(children) THEN k - 1
    ELSE LET rest == DropUntil(predecessors, getId(children[k]))
         IN  IF rest = <<>> THEN k - 1 ELSE InsertIndex(children, k + 1, rest)

\* The names of the child elements of e that precede element c.
Predecessors(e, c) ==
    LET ch == ElemChildren(Sch, e)
        Before(x) == x < c
        pre == SelectSeq(ch, Before)
    IN  [i \in 1..Len(pre) |-> Sch[pre[i]].name]

\* Sequence q with x inserted so that it becomes element number i.
InsertAt(q, i, x) == SubSeq(q, 1, i - 1) \o <<x>> \o SubSeq(q, i, Len(q))

\* Sequence q without its element number i.
RemoveAt(q, i) == SubSeq(q, 1, i - 1) \o SubSeq(q, i + 1, Len(q))

\* The positions ps, which are relative to the node at p, as positions in
\* the tree.
Below(p, ps) == [i \in 1..Len(ps) |-> p \o ps[i]]

\* The schema elements for which the value document holds, below the value
\* root of the Node of the parent element, a value element that no Node
\* has as its value root.
straysOf(t) == IF "strays" \in DOMAIN t THEN t.strays ELSE {}

\* Tree t over a document that holds one more value element without Node, for
\* schema element e.
WithStray(t, e) ==
    [f \in DOMAIN t \cup {"strays"} |-> IF f = "strays" THEN straysOf(t) \cup {e} ELSE t[f]]

\* A variant of addChild that computes the visibility of the new child but
\* not that of the nodes below it.
addChild_ChildOnly(st, pp, childname, position, id) ==
    LET n == NodeAt(st.tree, pp)
        same == Named(n, childname)
        existingcount == Cardinality(same)
        pos == IF position = -1 THEN existingcount ELSE position
        templatenode == ChildElement(n.el, childname)
        first == IF same # {} THEN CHOOSE i \in same : \A j \in same : i <= j ELSE 0
        index == IF same # {} THEN first + pos
                 ELSE InsertIndex(n.children, 1, Predecessors(n.el, templatenode)) + 1
    IN  IF id # "" /\ \E i \in same : n.children[i].id = id THEN Result([st EXCEPT !.err = TRUE], "raised")
        ELSE IF pos < 0 \/ pos > existingcount THEN Result([st EXCEPT !.err = TRUE], "raised")
        ELSE IF templatenode = 0 THEN Result(st, "None")
        ELSE Then(createValueNode(st, pp, TRUE), LAMBDA s1 :
             IF s1.err \/ ~InDocument(s1.tree, pp) THEN Result([s1 EXCEPT !.err = TRUE], "raised")
             ELSE IF ~canHaveClones(templatenode)
                  THEN Result([s1 EXCEPT !.err = TRUE, !.tree = WithStray(@, templatenode)],
                              "raised")
             ELSE LET cp == Append(pp, index)
                      n1 == NodeAt(s1.tree, pp)
                      Put(t, c) == Replace(t, pp, [n1 EXCEPT !.children = InsertAt(@, index, c)])
                  IN  Then(NewNode(templatenode, TRUE, id), LAMBDA child :
                      Then(updateVisibilityEach([s1 EXCEPT !.tree = Put(@, child)],
                                                << cp >>, FALSE),
                           LAMBDA s3 :
                      Then(NodeAt(s3.tree, cp), LAMBDA ready :
                      Then(NotifyVisibility([s3 EXCEPT !.tree = Replace(@, pp, n1)],
                                            "beforeVisibilityChange", cp, ready, TRUE, FALSE),
                           LAMBDA s5 :
                      Then(NotifyVisibility([s5 EXCEPT !.tree = Put(@, ready)],
                                            "afterVisibilityChange", cp, ready, TRUE, FALSE),
                           LAMBDA s7 : Result(s7, "node")))))))

\* Node.addChild(childname, position, id) on the node at pp; position -1
\* stands for position=None (append) and id "" for id=None.  The place is
\* found (an assertion fails for an id in use or a position out of range; a
\* name that is not in the template returns None), a value root is created
\* for the parent if it lacks one and a value element for the child is put
\* below it; the child Node is built (only a clone may be added: otherwise
\* an assertion fails and the value element stays where it is), made part
\* of the children to have its visibility and that of its descendants
\* computed without notification, taken out again, and then inserted
\* between a before and an after event with showhide=False.
addChild(st, pp, childname, position, id) ==
    LET n == NodeAt(st.tree, pp)
        same == Named(n, childname)
        existingcount == Cardinality(same)
        pos == IF position = -1 THEN existingcount ELSE position
        templatenode == ChildElement(n.el, childname)
        first == IF same # {} THEN CHOOSE i \in same : \A j \in same : i <= j ELSE 0
        index == IF same # {} THEN first + pos
                 ELSE InsertIndex(n.children, 1, Predecessors(n.el, templatenode)) + 1
    IN  IF id # "" /\ \E i \in same : n.children[i].id = id THEN Result([st EXCEPT !.err = TRUE], "raised")
        ELSE IF pos < 0 \/ pos > existingcount THEN Result([st EXCEPT !.err = TRUE], "raised")
        ELSE IF templatenode = 0 THEN Result(st, "None")
        ELSE Then(createValueNode(st, pp, TRUE), LAMBDA s1 :
             IF s1.err \/ ~InDocument(s1.tree, pp) THEN Result([s1 EXCEPT !.err = TRUE], "raised")
             ELSE IF ~canHaveClones(templatenode)
                  THEN Result([s1 EXCEPT !.err = TRUE, !.tree = WithStray(@, templatenode)],
                              "raised")
             ELSE LET cp == Append(pp, index)
                      n1 == NodeAt(s1.tree, pp)
                      Put(t, c) == Replace(t, pp, [n1 EXCEPT !.children = InsertAt(@, index, c)])
                  IN  Then(NewNode(templatenode, TRUE, id), LAMBDA child :
                      Then(updateVisibilityEach([s1 EXCEPT !.tree = Put(@, child)],
                                                Below(cp, getDescendants(child, <<>>)), FALSE),
                           LAMBDA s3 :
                      Then(NodeAt(s3.tree, cp), LAMBDA ready :
                      Then(NotifyVisibility([s3 EXCEPT !.tree = Replace(@, pp, n1)],
                                            "beforeVisibilityChange", cp, ready, TRUE, FALSE),
                           LAMBDA s5 :
                      Then(NotifyVisibility([s5 EXCEPT !.tree = Put(@, ready)],
                                            "afterVisibilityChange", cp, ready, TRUE, FALSE),
                           LAMBDA s7 : Result(s7, "node")))))))

RECURSIVE removeChildNode(_, _)
RECURSIVE removeAllChildren(_, _, _)

\* Node.removeAllChildren(optionalonly=False) on the node at p: its children
\* are removed from the last to the first (i is the next to remove).
removeAllChildren(st, p, i) ==
    IF i = 0 \/ st.err THEN st
    ELSE Then(removeChildNode(st, Append(p, i)), LAMBDA s : removeAllChildren(s, p, i - 1))

\* Node.removeChildNode for the node at p: everything below it is removed,
\* then the node is taken out of its parent's children and its value root
\* out of the parent's value root (which fails when it does not hang there),
\* between a before and an after event with showhide=False.
removeChildNode(st, p) ==
    Then(removeAllChildren(st, p, Len(NodeAt(st.tree, p).children)), LAMBDA s1 :
    IF s1.err THEN s1
    ELSE LET node == NodeAt(s1.tree, p)
             par == NodeAt(s1.tree, Parent(p))
             gone == [node EXCEPT !.vr = "none", !.vn = FALSE, !.val = None]
         IN  Then(NotifyVisibility(s1, "beforeVisibilityChange", p, node, FALSE, FALSE),
                  LAMBDA s2 :
             Then([s2 EXCEPT !.tree =
                      Replace(@, Parent(p), [par EXCEPT !.children = RemoveAt(@, p[Len(p)])])],
                  LAMBDA s3 :
             IF node.vr # "none" /\ (par.vr = "none" \/ node.vr = "det")
             THEN [s3 EXCEPT !.err = TRUE]
             ELSE NotifyVisibility(s3, "afterVisibilityChange", p, gone, FALSE, FALSE))))

\* Node.removeChild(childname, id) with an integer id, that is
\* removeChildren(childname, id, id): the id-th (from 0) child of that name
\* is removed when there is one (only a clone may be removed).
removeChild(st, pp, childname, id) ==
    LET n == NodeAt(st.tree, pp)
        i == getChildByNumber(n, childname, id)
    IN  IF Named(n, childname) # {} /\ ~canHaveClones(ChildElement(n.el, childname))
        THEN Result([st EXCEPT !.err = TRUE], "raised")
        ELSE IF i = 0 THEN Result(st, "None")
        ELSE Then(removeChildNode(st, Append(pp, i)), LAMBDA s : Result(s, "None"))

\* ------------------------------------------------------------------------
\* TypedStore: construction
\* ------------------------------------------------------------------------

\* The store at the start of an operation: nothing told to the interfaces
\* yet, no exception raised.
Begin == [tree |-> tree, changed |-> changed, log |-> <<>>, err |-> FALSE]

\* TypedStore.setStore(None): the Node tree built over an empty value
\* document (the root Node holds the document element), with the visibility
\* of every node computed without notification.
setStore ==
    LET root == NewNode(1, TRUE, "")
        st == [tree |-> root, changed |-> FALSE, log |-> <<>>, err |-> FALSE]
    IN  updateVisibilityEach(st, getDescendants(root, <<>>), FALSE).tree

\* A Node with a value root and a value node holding v.
WithValue(n, v) == [n EXCEPT !.vr = "att", !.vn = TRUE, !.val = v]

\* The store with default values used with schema 3: "plain" is "a" and
\* there is one "item", "b".
DefaultsOfSchemaDef ==
    [NewNode(1, TRUE, "") EXCEPT
        !.children = << WithValue(NewNode(2, FALSE, ""), "a"),
                        WithValue(NewNode(3, TRUE, ""), "b"),
                        NewNode(4, FALSE, "") >>]

\* TypedStore.__init__: a store of one of the schemas over an empty value
\* document, with the default store of that schema (if any) attached
\* before the values are set, and two interfaces connected: one that shows
\* hidden nodes and one that does not.
Init ==
    /\ schema \in {Schema(Schemas[k]) : k \in 1..Len(Schemas)}
    /\ defaultstore = IF Sch = SchemaDef THEN DefaultsOfSchemaDef ELSE NoStore
    /\ interfaces = << Interface(TRUE), Interface(FALSE) >>
    /\ tree = setStore
    /\ changed = FALSE
    /\ validnodes = {}
    /\ convertorsfrom = {}
    /\ context = NoContext
    /\ objects = <<>>
    /\ log = <<>>
    /\ lastop = [op |-> "setStore", pos |-> <<>>, value |-> None, name |-> "",
                 position |-> 0, id |-> ""]
    /\ ret = "None"

\* ------------------------------------------------------------------------
\* Actions: the calls a user of the store makes
\* ------------------------------------------------------------------------

\* The store after an operation with result r.
Finish(r) ==
    /\ tree' = r.st.tree
    /\ changed' = r.st.changed
    /\ log' = r.st.log
    /\ UNCHANGED <<schema, defaultstore, interfaces, validnodes, convertorsfrom, context, objects>>

\* node.setValue(v) on a node that can have a value; setValue(None) is
\* clearValue() and returns None.
SetValue ==
    \E p \in Positions(tree), v \in Values \cup {None}, deny \in SUBSET (1..Len(interfaces)) :
        /\ canHaveValue(NodeAt(tree, p).el)
        /\ \E r \in {IF v = None THEN clearValue(Begin, p, deny)
                               ELSE setValue(Begin, p, v, deny)} :
               /\ Finish(r)
               /\ ret' = IF v = None /\ r.ret # "raised" THEN "None" ELSE r.ret
        /\ lastop' = [op |-> "setValue", pos |-> p, value |-> v, name |-> "",
                      position |-> 0, id |-> ""]

\* node.clearValue() on any node.
ClearValue ==
    \E p \in Positions(tree), deny \in SUBSET (1..Len(interfaces)) :
        /\ \E r \in {clearValue(Begin, p, deny)} : Finish(r) /\ ret' = r.ret
        /\ lastop' = [op |-> "clearValue", pos |-> p, value |-> None, name |-> "",
                      position |-> 0, id |-> ""]

\* The names of the child elements of e that can have clones.
CloneNames(e) == {Sch[c].name : c \in {c \in 1..Len(Sch) : Sch[c].parent = e /\ canHaveClones(c)}}

\* node.addChild(name, position, id) for a clone, while the parent has
\* fewer than MaxClones children of that name.
AddChild ==
    \E pp \in Positions(tree) :
      \E name \in CloneNames(NodeAt(tree, pp).el), id \in SecIds \cup {""} :
        \E position \in -1..Cardinality(Named(NodeAt(tree, pp), name)) :
            /\ Cardinality(Named(NodeAt(tree, pp), name)) < MaxClones
            /\ \E r \in {addChild(Begin, pp, name, position, id)} :
                   Finish(r) /\ ret' = r.ret
            /\ lastop' = [op |-> "addChild", pos |-> pp, value |-> None, name |-> name,
                          position |-> position, id |-> id]

\* node.removeChild(name, index) for a clone.
RemoveChild ==
    \E pp \in Positions(tree) :
      \E name \in CloneNames(NodeAt(tree, pp).el), index \in 0..(MaxClones - 1) :
            /\ \E r \in {removeChild(Begin, pp, name, index)} :
                   Finish(r) /\ ret' = r.ret
            /\ lastop' = [op |-> "removeChild", pos |-> pp, value |-> None, name |-> name,
                          position |-> index, id |-> ""]

Next == SetValue \/ ClearValue \/ AddChild \/ RemoveChild

Spec == Init /\ [][Next]_vars

\* ------------------------------------------------------------------------
\* Vocabulary of the properties
\* ------------------------------------------------------------------------

\* The last operation was a setValue or clearValue.
ValueCall == lastop.op \in {"setValue", "clearValue"}

\* The last operation was a setValue or clearValue that changed the value of
\* its node and returned: the change of that node's value was reported.
Committed ==
    /\ ValueCall
    /\ ret # "raised"
    /\ \E k \in 1..Len(log) :
          log[k].kind = "afterChange" /\ log[k].node = lastop.pos /\ log[k].value = "value"

\* The leaves (comparisons of a variable with a value) of a condition.
RECURSIVE Leaves(_)
Leaves(cond) ==
    IF cond.type \in {"eq", "ne"} THEN {cond}
    ELSE IF cond.type = "none" THEN {}
    ELSE UNION {Leaves(cond.kids[i]) : i \in 1..Len(cond.kids)}

\* The condition of the node at X.
ConditionOf(t, X) == Sch[NodeAt(t, X).el].cond

\* The condition of the node at X names the node at Y: the path of one of
\* its leaves, followed from where the condition is evaluated, ends at Y.
References(t, X, Y) ==
    \E c \in Leaves(ConditionOf(t, X)) :
        getLocation(t, IF Head(c.variable) = "" THEN <<>> ELSE Parent(X), c.variable) = Y

\* The node at X has no condition, or its visible flag is what its condition
\* evaluates to.
VisibleAsCondition(t, X) ==
    \/ ConditionOf(t, X).type = "none"
    \/ NodeAt(t, X).visible = checkCondition(t, ConditionOf(t, X), X)

\* ------------------------------------------------------------------------
\* Properties
\* ------------------------------------------------------------------------

\* C1: after a committed setValue or clearValue on a node Y, every node X
\* whose condition references Y has X.visible equal to the result of
\* evaluating X's condition against the current-or-default values, for
\* relative and absolute variable paths and under any occurrence of a
\* repeatable ancestor.
C1_DependantsShowCondition ==
    Committed =>
        \A X \in Positions(tree) :
            References(tree, X, lastop.pos) => VisibleAsCondition(tree, X)

\* The calls of the last operation that tell of a change of visibility of
\* the node at X.
VisibilityEvents(X) ==
    {k \in 1..Len(log) :
        /\ log[k].kind \in {"beforeVisibilityChange", "afterVisibilityChange"}
        /\ log[k].node = X}

\* The dependency index lists element x as a visibility dependant of
\* element y: an entry below y leads to x.
Indexed(x, y) ==
    \E k \in 1..Len(schema.dependentvariables[y]) :
        LET d == schema.dependentvariables[y][k] IN
        /\ d.type = "visibility"
        /\ getNodeFromPath(Sch, d.path, IF Head(d.path) = "" THEN 1 ELSE Sch[y].parent) = x

Vetoed == \E k \in 1..Len(log) : log[k].kind = "beforeChange" /\ ~log[k].allowed

\* The last operation was setValue(v) with a value v (not None).
SetValueCall == lastop.op = "setValue" /\ lastop.value # None

\* C3: for any value-capable node and any value v accepted by its type,
\* after setValue(v) getValue() equals v when no connected interface vetoes
\* the change; when an interface's beforeChange handler denies it, getValue()
\* returns the same value as before the call.
C3_SetThenGet ==
    [][SetValueCall' =>
          IF Vetoed'
          THEN getValue(tree', lastop'.pos) = getValue(tree, lastop'.pos)
          ELSE getValue(tree', lastop'.pos) = lastop'.value]_vars

\* A setValue(v) on a node with another value was denied, and the node has
\* the value it had.
C3_Witness ==
    /\ SetValueCall
    /\ Vetoed
    /\ getValue(tree, lastop.pos) \notin {None, lastop.value}

C5_SameValueNoOp ==
    [][(SetValueCall' /\ getValue(tree, lastop'.pos) = lastop'.value) =>
          /\ ret' = "False"
          /\ log' = <<>>
          /\ changed' = changed
          /\ tree' = tree]_vars

\* A setValue(v) on a node whose value is v, while a node that depends on
\* it has a visible flag that differs from its condition.
C5_Witness ==
    /\ SetValueCall
    /\ ret = "False"
    /\ log = <<>>
    /\ getValue(tree, lastop.pos) = lastop.value
    /\ \E X \in Positions(tree) : ~VisibleAsCondition(tree, X)

\* The kinds of call that tell of a change of visibility.
VisibilityKinds == {"beforeVisibilityChange", "afterVisibilityChange"}

\* The value a handler reads with getValue() from the Node an event names.
ValueIn(snap) == IF snap.vn THEN snap.val ELSE None

\* The calls of the last operation that report the change of its node's
\* value to interface i.
AfterChangeCalls(i) ==
    {k \in 1..Len(log) :
        /\ log[k].kind = "afterChange" /\ log[k].iface = i
        /\ log[k].node = lastop.pos /\ log[k].value = "value"}

\* C6: for every committed value mutation, each interface's afterChange
\* notification for the mutated node is delivered after the new value is
\* stored (a getValue() inside the handler returns the new value) and before
\* any visibility flip or visibility event of a node that depends on the
\* mutated node.
C6_AfterChangeBetween ==
    Committed =>
        \A i \in 1..Len(interfaces) :
            /\ AfterChangeCalls(i) # {}
            /\ \A k \in AfterChangeCalls(i) :
                  /\ ValueIn(log[k].snap) =
                        IF lastop.op = "setValue" THEN lastop.value ELSE None
                  /\ \A j \in 1..Len(log) :
                        log[j].kind \in VisibilityKinds => k < j

\* A committed setValue(v) after which dependants changed their visibility.
C6_Witness ==
    /\ Committed
    /\ SetValueCall
    /\ \E j \in 1..Len(log) : log[j].kind \in VisibilityKinds

\* The calls of the last operation that announce that a node is shown
\* (to = TRUE) or hidden (to = FALSE).
ShowHideCalls(to) ==
    {k \in 1..Len(log) :
        log[k].kind \in VisibilityKinds /\ log[k].showhide /\ log[k].shownew = to}

\* C7: within the visibility recomputation triggered by one value change,
\* every dependent node that was hidden when it started is re-evaluated
\* (and, if revealed, announced) before any dependent node that was visible
\* when it started; hence all hidden-to-visible events precede all
\* visible-to-hidden events of that recomputation, also when the changed
\* node additionally has unit-type dependents.
C7_ShownBeforeHidden ==
    Committed =>
        \A j \in ShowHideCalls(FALSE) : \A k \in ShowHideCalls(TRUE) : k < j

\* The calls of kind `kind` the last operation made to interface i that
\* name the node at X.
Calls(i, kind, X) ==
    {k \in 1..Len(log) : log[k].kind = kind /\ log[k].iface = i /\ log[k].node = X}

\* C8: when a setValue on a controlling node flips the condition result of
\* a dependent node X, each connected interface receives exactly one
\* beforeVisibilityChange and exactly one afterVisibilityChange naming X
\* with the new visibility (also when X's condition references the
\* controlling node more than once), and receives no visibility event for a
\* dependent whose condition result did not change.
C8_OneEventPerFlip ==
    [][(SetValueCall' /\ Committed') =>
          \A X \in Positions(tree) :
              References(tree, X, lastop'.pos) =>
                  \A i \in 1..Len(interfaces) :
                      \A kind \in VisibilityKinds :
                          IF checkCondition(tree', ConditionOf(tree, X), X)
                                 # checkCondition(tree, ConditionOf(tree, X), X)
                          THEN /\ Cardinality(Calls(i, kind, X)') = 1
                               /\ \A k \in Calls(i, kind, X)' :
                                     log'[k].shownew = checkCondition(tree', ConditionOf(tree, X), X)
                          ELSE Calls(i, kind, X)' = {}]_vars

\* The calls of the last operation that tell of a change of visibility.
VisibilityCalls == {k \in 1..Len(log) : log[k].kind \in VisibilityKinds}

\* C9: at the moment addChild delivers the insertion notification
\* (before/afterVisibilityChange with showhide=false) for a new child, the
\* child and every descendant of it that has a condition already have
\* visible equal to their condition result, and addChild emits no separate
\* show/hide event for them.
C9_ChildReadyWhenAnnounced ==
    (lastop.op = "addChild" /\ ret = "node") =>
        /\ \A kind \in VisibilityKinds : \E k \in VisibilityCalls : log[k].kind = kind
        /\ \A k \in VisibilityCalls :
              /\ ~log[k].showhide
              /\ \A q \in Positions(log[k].snap) :
                    LET cond == Sch[NodeAt(log[k].snap, q).el].cond IN
                    cond.type # "none" =>
                        NodeAt(log[k].snap, q).visible =
                            checkCondition(tree, cond, log[k].node \o q)

\* addChild has added a child below which a node is hidden by its
\* condition.
C9_Witness ==
    /\ lastop.op = "addChild"
    /\ ret = "node"
    /\ \E k \in VisibilityCalls :
          \E q \in Positions(log[k].snap) :
              /\ Sch[NodeAt(log[k].snap, q).el].cond.type # "none"
              /\ ~NodeAt(log[k].snap, q).visible

\* The last operation was clearValue() on a value-capable node of a store
\* with a default store attached.
ClearCall ==
    /\ lastop.op = "clearValue"
    /\ defaultstore # NoStore
    /\ canHaveValue(NodeAt(tree, lastop.pos).el)

\* The node of the last operation shows the value of the corresponding node
\* of the default store, and hasDefaultValue() is true.
ShowsDefault ==
    /\ getValueOrDefault(tree, lastop.pos) = getDefaultValue(tree, lastop.pos)
    /\ hasDefaultValue(tree, lastop.pos)

InitMap ==
    /\ schema \in {Schema(Schemas[k]) : k \in 1..Len(Schemas)}
    /\ defaultstore = NewNode(1, TRUE, "")
    /\ interfaces = << Interface(TRUE), Interface(FALSE) >>
    /\ tree = setStore
    /\ changed = FALSE
    /\ validnodes = {}
    /\ convertorsfrom = {}
    /\ context = NoContext
    /\ objects = <<>>
    /\ log = <<>>
    /\ lastop = [op |-> "setStore", pos |-> <<>>, value |-> None, name |-> "",
                 position |-> 0, id |-> ""]
    /\ ret = "None"

\* node.addChild(name, position, id) on a node of the default store.  The
\* store listens only to afterChange of its default store (setDefaultStore),
\* which addChild does not emit, so nothing of the store itself changes.
AddDefaultChild ==
    \E pp \in Positions(defaultstore) :
      \E name \in CloneNames(NodeAt(defaultstore, pp).el), id \in SecIds \cup {""} :
        \E position \in -1..Cardinality(Named(NodeAt(defaultstore, pp), name)) :
            /\ Cardinality(Named(NodeAt(defaultstore, pp), name)) < MaxClones
            /\ \E r \in {addChild([tree |-> defaultstore, changed |-> FALSE,
                                    log |-> <<>>, err |-> FALSE],
                                   pp, name, position, id)} :
                   /\ defaultstore' = r.st.tree
                   /\ ret' = r.ret
            /\ log' = <<>>
            /\ lastop' = [op |-> "addDefaultChild", pos |-> pp, value |-> None,
                          name |-> name, position |-> position, id |-> id]
            /\ UNCHANGED <<schema, tree, interfaces, changed, validnodes, convertorsfrom, context,
                         objects>>

NextMap == AddChild \/ RemoveChild \/ AddDefaultChild

SpecMap == InitMap /\ [][NextMap]_vars

\* The node at q of tree `own` has the place of the node at p of tree
\* `foreign`: level by level the same element, and where that element can
\* have clones the same secondary id when the foreign node has one,
\* otherwise the same occurrence index among the same-named siblings.
Corresponds(own, q, foreign, p) ==
    /\ Len(q) = Len(p)
    /\ \A k \in 1..Len(p) :
          LET fn == NodeAt(foreign, SubSeq(p, 1, k))
              on == NodeAt(own, SubSeq(q, 1, k))
          IN  /\ on.el = fn.el
              /\ canHaveClones(fn.el) =>
                    IF fn.id # "" THEN on.id = fn.id
                    ELSE OccurrenceIndex(own, SubSeq(q, 1, k))
                            = OccurrenceIndex(foreign, SubSeq(p, 1, k))

\* C11: mapForeignNode maps a node of another store of the same schema to
\* the node of this store with the same names along the path, every
\* repeatable ancestor-or-self matched by its secondary id when it has one
\* and otherwise by its occurrence index among same-named siblings; it
\* returns nothing when there is no such node, and maps every node of the
\* store itself to that same node.
C11_MapsToCorresponding ==
    /\ \A p \in Positions(defaultstore) :
          LET r == mapForeignNode(tree, defaultstore, p, 1, <<>>) IN
          IF \E q \in Positions(tree) : Corresponds(tree, q, defaultstore, p)
          THEN r \in Positions(tree) /\ Corresponds(tree, r, defaultstore, p)
          ELSE r = None
    /\ \A p \in Positions(tree) : mapForeignNode(tree, tree, p, 1, <<>>) = p

\* The other store has a clone with a secondary id whose place in the store
\* is that of a node at another index, where the node at its own index has
\* no secondary id.
C11_Witness ==
    \E p \in Positions(defaultstore) :
        /\ p # <<>>
        /\ NodeAt(defaultstore, p).id # ""
        /\ p \in Positions(tree)
        /\ NodeAt(tree, p).id = ""
        /\ mapForeignNode(tree, defaultstore, p, 1, <<>>) \in Positions(tree)
        /\ mapForeignNode(tree, defaultstore, p, 1, <<>>) # p

\* ------------------------------------------------------------------------
\* Locations
\* ------------------------------------------------------------------------

\* Node.location: the names of the elements from below the root down to the
\* node at p (the root's location is empty; a child's is the parent's
\* location plus the child's name).
RECURSIVE location(_, _)
location(t, p) ==
    IF p = <<>> THEN <<>>
    ELSE Append(location(t, Parent(p)), getId(NodeAt(t, p)))

\* '/'.join(names).split('/'), as Node.__getitem__ splits a path: the names
\* again, and one empty name for no names.
SplitJoined(names) == IF names = <<>> THEN << "" >> ELSE names

\* C12: for every live node of a tree, including each of several same-named
\* repeatable siblings, resolving the '/'-joined node.location from the
\* root with getLocation returns that same node.
C12_LocationRoundTrip ==
    \A p \in Positions(tree) :
        getLocation(tree, <<>>, SplitJoined(location(tree, p))) = p

\* ------------------------------------------------------------------------
\* Stores built from a value document
\* ------------------------------------------------------------------------

\* Most entries of one name below one element of a value document.
MaxEntries == 2

\* A schema with an optional variable (minOccurs=0, maxOccurs absent) and a
\* container that must occur once, with a variable in it that may occur any
\* number of times.
SchemaOccurs ==
    << Element("root", 0, ""),
       [Element("opt", 1, "string") EXCEPT !.minOccurs = 0],
       Element("box", 1, ""),
       Repeatable("many", 3, "string") >>

\* The sequences of at most n elements of S.
SeqsUpTo(S, n) == UNION {[1..k -> S] : k \in 0..n}

\* The value elements (name, id attribute, text, child elements) a document
\* may hold for schema element e: below it at most MaxEntries entries for
\* each child element, whatever minOccurs and maxOccurs say.
RECURSIVE ValueEntries(_)
ValueEntries(e) ==
    LET ch == ElemChildren(Sch, e)
        Kids[i \in 0..Len(ch)] ==
            IF i = 0 THEN {<<>>}
            ELSE {a \o b : a \in Kids[i - 1],
                           b \in SeqsUpTo(ValueEntries(ch[i]), MaxEntries)}
    IN  {[name |-> Sch[e].name, id |-> "", text |-> t, children |-> k] :
            t \in (IF canHaveValue(e) THEN {"a"} ELSE {None}), k \in Kids[Len(ch)]}

\* No value element (valuenode None): nothing below it.
NoEntry == [name |-> "", id |-> "", text |-> None, children |-> <<>>]

\* The child elements of value element v named `name`, in document order
\* (valuechildren[name] in Node.__init__).
EntriesNamed(v, name) ==
    LET Hit(x) == x.name = name IN SelectSeq(v.children, Hit)

\* Node.__init__ with value element v as valuenode: for each child element
\* one child Node per value entry of its name, the entries beyond maxOccurs
\* removed from the value element but kept in the list the Nodes are made
\* from (their value root is detached), then Nodes without value element up
\* to minOccurs.  A node with children and a value has as its value node
\* the entry below v that carries its own name.
RECURSIVE NodeFromValue(_, _, _)
NodeFromValue(e, v, vr) ==
    LET ch == ElemChildren(Sch, e)
        Made(c) ==
            LET cur == EntriesNamed(v, Sch[c].name)
                maxoccurs == Sch[c].maxOccurs
            IN  [i \in 1..Len(cur) |->
                    NodeFromValue(c, cur[i],
                                  IF maxoccurs # -1 /\ i > maxoccurs THEN "det" ELSE "att")]
                \o [i \in 1..(Sch[c].minOccurs - Len(cur)) |-> NewNode(c, FALSE, "")]
        own == EntriesNamed(v, Sch[e].name)
        dual == ch # <<>> /\ canHaveValue(e)
    IN  [el |-> e,
         visible |-> ~Sch[e].hidden,
         vr |-> vr,
         vn |-> IF dual THEN own # <<>> ELSE TRUE,
         val |-> IF dual THEN (IF own # <<>> THEN own[1].text ELSE None) ELSE v.text,
         id |-> v.id,
         children |-> Flatten([i \in 1..Len(ch) |-> Made(ch[i])])]

\* TypedStore.setStore(valueroot) with a value document: the Node tree is
\* built over its document element, the store is marked unchanged, and the
\* visibility of every node is computed without notification.
setStoreFrom(valueroot) ==
    LET root == NodeFromValue(1, valueroot, "att")
        st == [tree |-> root, changed |-> FALSE, log |-> <<>>, err |-> FALSE]
    IN  updateVisibilityEach(st, getDescendants(root, <<>>), FALSE)

\* TypedStore.__init__ for the schema with optional and repeatable elements,
\* over an empty value document.
InitBuild ==
    /\ schema = Schema(SchemaOccurs)
    /\ defaultstore = NoStore
    /\ interfaces = << Interface(TRUE), Interface(FALSE) >>
    /\ tree = setStore
    /\ changed = FALSE
    /\ validnodes = {}
    /\ convertorsfrom = {}
    /\ context = NoContext
    /\ objects = <<>>
    /\ log = <<>>
    /\ lastop = [op |-> "setStore", pos |-> <<>>, value |-> None, name |-> "",
                 position |-> 0, id |-> "", valueroot |-> NoEntry]
    /\ ret = "None"

\* store.setStore(valueroot) with any value document for the schema.
SetStore ==
    \E valueroot \in ValueEntries(1) :
        /\ \E st \in {setStoreFrom(valueroot)} :
               /\ tree' = st.tree
               /\ changed' = st.changed
               /\ log' = st.log
        /\ ret' = "None"
        /\ lastop' = [op |-> "setStore", pos |-> <<>>, value |-> None, name |-> "",
                      position |-> 0, id |-> "", valueroot |-> valueroot]
        /\ UNCHANGED <<schema, defaultstore, interfaces, validnodes, convertorsfrom, context, objects>>

NextBuild == SetStore \/ AddChild \/ RemoveChild

SpecBuild == InitBuild /\ [][NextBuild]_vars

\* The smaller of two numbers, where -1 for the second is "unbounded".
AtMost(n, maxoccurs) == IF maxoccurs # -1 /\ maxoccurs < n THEN maxoccurs ELSE n

\* Node n, built from value element v (NoEntry: from no value element), has
\* for each child element as many child Nodes as the claimed rule gives, and
\* so have the nodes below it.
RECURSIVE Conforms(_, _)
Conforms(n, v) ==
    \A c \in {c \in 1..Len(Sch) : Sch[c].parent = n.el} :
        LET kids == SelectSeq(n.children, LAMBDA k : k.el = c)
            entries == EntriesNamed(v, Sch[c].name)
            atleast == IF Len(entries) < Sch[c].minOccurs THEN Sch[c].minOccurs
                       ELSE Len(entries)
        IN  /\ Len(kids) = AtMost(atleast, Sch[c].maxOccurs)
            /\ \A i \in 1..Len(kids) :
                  Conforms(kids[i], IF i <= Len(entries) THEN entries[i] ELSE NoEntry)

\* C13: after a Node tree is constructed from any value document, for every
\* parent node and every schema child element the number n of child Nodes
\* created for that element is min(max(entries, minOccurs), maxOccurs),
\* where entries is the number of matching value entries: excess entries
\* produce no Nodes.
C13_OccurrencesWithinBounds ==
    lastop.op = "setStore" => Conforms(tree, lastop.valueroot)

\* C14: in every reachable state (after construction from any value
\* document and after any sequence of operations), each live Node has
\* exactly one child Node for each schema child element with maxOccurs=1,
\* whatever its minOccurs is and whether or not a value entry exists for it.
C14_OneNodePerSingleElement ==
    \A p \in Positions(tree) :
        \A c \in {c \in 1..Len(Sch) : Sch[c].parent = NodeAt(tree, p).el} :
            Sch[c].maxOccurs = 1 =>
                Cardinality({i \in 1..Len(NodeAt(tree, p).children) :
                                NodeAt(tree, p).children[i].el = c}) = 1

\* ------------------------------------------------------------------------
\* Recursive clearValue
\* ------------------------------------------------------------------------

\* Node.isReadOnly: the element has the attribute readonly.
isReadOnly(e) == Sch[e].readonly

\* A container with a variable, a read-only variable and a repeatable
\* variable.
SchemaClear ==
    << Element("root", 0, ""),
       Element("grp", 1, ""),
       Element("x", 2, "string"),
       [Element("ro", 2, "string") EXCEPT !.readonly = TRUE],
       Repeatable("many", 2, "string") >>

RECURSIVE removeOptionalChildren(_, _, _)
RECURSIVE clearChildren(_, _, _, _, _, _, _)
RECURSIVE clearValueRecursive(_, _, _, _, _, _)

\* Node.removeAllChildren(optionalonly=True) on the node at p: its children
\* that can have clones are removed, from the last to the first (i is the
\* next to look at).
removeOptionalChildren(st, p, i) ==
    IF i = 0 \/ st.err THEN st
    ELSE IF canHaveClones(NodeAt(st.tree, Append(p, i)).el)
         THEN Then(removeChildNode(st, Append(p, i)),
                   LAMBDA s : removeOptionalChildren(s, p, i - 1))
         ELSE removeOptionalChildren(st, p, i - 1)

\* The loop "for ch in self.children" of clearValue from child i on:
\* `cleared` becomes false when the clearValue of a child does not return
\* True.
clearChildren(st, p, i, skipreadonly, deleteclones, vetoed, cleared) ==
    IF st.err \/ i > Len(NodeAt(st.tree, p).children)
    THEN [st |-> st, cleared |-> cleared]
    ELSE Then(clearValueRecursive(st, Append(p, i), TRUE, skipreadonly, deleteclones, vetoed),
              LAMBDA r : clearChildren(r.st, p, i + 1, skipreadonly, deleteclones, vetoed,
                                       cleared /\ r.ret = "True"))

\* Node.clearValue(recursive, skipreadonly, deleteclones); the beforeChange
\* handler of the first interface answers False for the nodes of the
\* elements in `vetoed`.  The result tells also what the loop over the
\* children left in `cleared`.
clearValueRecursive(st, p, recursive, skipreadonly, deleteclones, vetoed) ==
    Then(IF recursive /\ deleteclones
         THEN removeOptionalChildren(st, p, Len(NodeAt(st.tree, p).children))
         ELSE st, LAMBDA s0 :
    Then(IF recursive THEN clearChildren(s0, p, 1, skipreadonly, deleteclones, vetoed, TRUE)
         ELSE [st |-> s0, cleared |-> TRUE], LAMBDA c :
    LET n == NodeAt(c.st.tree, p)
        Out(r) == [st |-> r.st, ret |-> r.ret, cleared |-> c.cleared]
    IN  IF c.st.err THEN Out(Result(c.st, "raised"))
        ELSE IF ~n.vn THEN Out(Result(c.st, "True"))
        ELSE IF (skipreadonly /\ isReadOnly(n.el)) \/ p = <<>> \/ ~c.cleared
             THEN Out(Result(c.st, "False"))
        ELSE Out(clearValue(c.st, p, IF n.el \in vetoed THEN {1} ELSE {}))))

\* A store of the schema SchemaClear over an empty value document.
InitClear ==
    /\ schema = Schema(SchemaClear)
    /\ defaultstore = NoStore
    /\ interfaces = << Interface(TRUE), Interface(FALSE) >>
    /\ tree = setStore
    /\ changed = FALSE
    /\ validnodes = {}
    /\ convertorsfrom = {}
    /\ context = NoContext
    /\ objects = <<>>
    /\ log = <<>>
    /\ lastop = [op |-> "setStore", pos |-> <<>>, value |-> None, name |-> "",
                 position |-> 0, id |-> "", ownvalue |-> None,
                 recursive |-> FALSE, skipreadonly |-> FALSE, deleteclones |-> FALSE,
                 cleared |-> TRUE]
    /\ ret = "None"

\* node.setValue(v) with a value, accepted by every interface.
SetValueClear ==
    \E p \in Positions(tree), v \in {"a"} :
        /\ canHaveValue(NodeAt(tree, p).el)
        /\ \E r \in {setValue(Begin, p, v, {})} : Finish(r) /\ ret' = r.ret
        /\ lastop' = [lastop EXCEPT !.op = "setValue", !.pos = p, !.value = v,
                                    !.ownvalue = getValue(tree, p)]

\* Most same-named siblings added below one parent before a recursive
\* clearValue.
MaxClearClones == 1

\* node.addChild(name) for a clone, while the parent has fewer than
\* MaxClearClones children of that name.
AddChildClear ==
    \E pp \in Positions(tree) :
      \E name \in CloneNames(NodeAt(tree, pp).el) :
            /\ Cardinality(Named(NodeAt(tree, pp), name)) < MaxClearClones
            /\ \E r \in {addChild(Begin, pp, name, -1, "")} : Finish(r) /\ ret' = r.ret
            /\ lastop' = [lastop EXCEPT !.op = "addChild", !.pos = pp, !.name = name,
                                        !.ownvalue = None]

\* node.clearValue(recursive, skipreadonly, deleteclones) on any node.
ClearValueRecursive ==
    \E p \in Positions(tree), recursive \in BOOLEAN, skipreadonly \in BOOLEAN,
       deleteclones \in BOOLEAN, vetoed \in SUBSET {3} :
        /\ \E r \in {clearValueRecursive(Begin, p, recursive, skipreadonly,
                                         deleteclones, vetoed)} :
               /\ Finish(r)
               /\ ret' = r.ret
               /\ lastop' = [op |-> "clearValue", pos |-> p, value |-> None, name |-> "",
                             position |-> 0, id |-> "", ownvalue |-> getValue(tree, p),
                             recursive |-> recursive, skipreadonly |-> skipreadonly,
                             deleteclones |-> deleteclones, cleared |-> r.cleared]

NextClear == SetValueClear \/ AddChildClear \/ ClearValueRecursive

SpecClear == InitClear /\ [][NextClear]_vars

\* The positions strictly below p in tree t.
StrictlyBelow(t, p) == {q \in Positions(t) : Len(q) > Len(p) /\ SubSeq(q, 1, Len(p)) = p}

\* C15: when clearValue(recursive=True, deleteclones=True) on a node other
\* than the root returns True, no descendant of the node has an explicit
\* value, no Node of a repeatable element remains below it, and below it
\* every Node of an element that must occur exactly once still exists.
C15_RecursiveClearLeavesNothing ==
    (/\ lastop.op = "clearValue" /\ lastop.recursive /\ lastop.deleteclones
     /\ lastop.pos # <<>> /\ ret = "True")
    => /\ \A q \in StrictlyBelow(tree, lastop.pos) :
              /\ ~hasValue(tree, q)
              /\ ~canHaveClones(NodeAt(tree, q).el)
       /\ \A q \in StrictlyBelow(tree, lastop.pos) \cup {lastop.pos} :
              \A c \in {c \in 1..Len(Sch) : Sch[c].parent = NodeAt(tree, q).el} :
                  (Sch[c].minOccurs = 1 /\ Sch[c].maxOccurs = 1)
                      => \E i \in 1..Len(NodeAt(tree, q).children) :
                             NodeAt(tree, q).children[i].el = c

\* C16: clearValue with skipreadonly=True returns False for a read-only
\* node that has a value and leaves that value in place; a recursive
\* clearValue returns False and leaves the node's own value in place
\* whenever the clearValue of one of its descendants returned False.
C16_FailedClearIsReported ==
    lastop.op = "clearValue" =>
        /\ (/\ lastop.skipreadonly
            /\ isReadOnly(NodeAt(tree, lastop.pos).el)
            /\ lastop.ownvalue # None)
           => /\ ret = "False"
              /\ getValue(tree, lastop.pos) = lastop.ownvalue
        /\ (lastop.recursive /\ ~lastop.cleared)
           => /\ ret = "False"
              /\ getValue(tree, lastop.pos) = lastop.ownvalue

\* ------------------------------------------------------------------------
\* Conditions
\* ------------------------------------------------------------------------

\* The current-or-default value of the node an eq/ne condition of the node
\* at `ownernode` refers to.
TargetValue(t, cond, ownernode) ==
    getValueOrDefault(t, getLocation(t, IF Head(cond.variable) = "" THEN <<>>
                                        ELSE Parent(ownernode), cond.variable))

\* What a condition means: eq/ne hold without a target value and compare
\* it with the literal otherwise; and is "all", or is "at least one".
RECURSIVE Holds(_, _, _)
Holds(t, cond, ownernode) ==
    CASE cond.type = "eq" -> \/ TargetValue(t, cond, ownernode) = None
                             \/ TargetValue(t, cond, ownernode) = cond.value
      [] cond.type = "ne" -> \/ TargetValue(t, cond, ownernode) = None
                             \/ TargetValue(t, cond, ownernode) # cond.value
      [] cond.type = "and" -> \A i \in 1..Len(cond.kids) : Holds(t, cond.kids[i], ownernode)
      [] cond.type = "or" -> \E i \in 1..Len(cond.kids) : Holds(t, cond.kids[i], ownernode)

\* The child of an and/or condition at which its evaluation stops: the
\* first that decides it (a false child of an and, a true child of an or),
\* the last child when none does.
LastEvaluated(t, cond, ownernode) ==
    LET deciding == {i \in 1..Len(cond.kids) :
                        Holds(t, cond.kids[i], ownernode) = (cond.type = "or")}
    IN  IF deciding = {} THEN Len(cond.kids)
        ELSE CHOOSE i \in deciding : \A j \in deciding : i <= j

\* Evaluation e of condition cond returns what the condition means, and
\* has evaluated the child conditions in order up to the first deciding
\* one, each of them in the same way.
RECURSIVE WellEvaluated(_, _, _, _)
WellEvaluated(t, cond, ownernode, e) ==
    /\ e.result = Holds(t, cond, ownernode)
    /\ cond.type \in {"and", "or"} =>
           /\ Len(e.kids) = LastEvaluated(t, cond, ownernode)
           /\ \A j \in 1..Len(e.kids) :
                  WellEvaluated(t, cond.kids[j], ownernode, e.kids[j])

\* The positions of the nodes whose element has a condition.
Conditioned == {p \in Positions(tree) : Sch[NodeAt(tree, p).el].cond.type # "none"}

\* C17: checkCondition returns True for an eq and for an ne condition whose
\* target has neither an explicit nor a default value; otherwise eq is True
\* exactly when the target's current-or-default value equals the literal
\* and ne exactly when it differs; and is True iff all its child conditions
\* are, or iff at least one is, and the children are evaluated in document
\* order up to the first deciding child.
C17_ConditionSemantics ==
    \A p \in Conditioned :
        WellEvaluated(tree, Sch[NodeAt(tree, p).el].cond, p,
                      evalCondition(tree, Sch[NodeAt(tree, p).el].cond, p))

\* An or condition stopped at its first child while an and condition went
\* through a child whose target has no value, and an eq condition is false.
C17_Witness ==
    \E p \in Conditioned, q \in Conditioned, r \in Conditioned :
        LET c == Sch[NodeAt(tree, p).el].cond
            d == Sch[NodeAt(tree, q).el].cond
            f == Sch[NodeAt(tree, r).el].cond
        IN  /\ c.type = "or" /\ Len(c.kids) > 1
            /\ Len(evalCondition(tree, c, p).kids) = 1
            /\ d.type = "and"
            /\ \E i \in 1..Len(d.kids) :
                   /\ d.kids[i].type = "ne"
                   /\ TargetValue(tree, d.kids[i], q) = None
                   /\ Len(evalCondition(tree, d, q).kids) >= i
            /\ f.type = "eq" /\ ~checkCondition(tree, f, r)

\* ------------------------------------------------------------------------
\* Validation
\* ------------------------------------------------------------------------

\* DataType.fromXmlString of the type "int": the integer a text stands for.
IntOf(text) ==
    CASE text = "-5" -> 0 - 5
      [] text = "0" -> 0
      [] text = "5" -> 5
      [] text = "10" -> 10
      [] text = "50" -> 50

\* value < other for two values of the type of element e (other read from
\* the text of a schema attribute).
LessThan(e, value, other) == Sch[e].type = "int" /\ IntOf(value) < IntOf(other)

\* A selection "sel" with an enabled and a disabled option, a bounded
\* integer "n", and a bounded integer "hn" shown only while sel is "b".
SchemaValidate ==
    << Element("root", 0, ""),
       [Element("sel", 1, "string") EXCEPT
           !.options = << Option("a", FALSE), Option("b", TRUE) >>],
       [Element("n", 1, "int") EXCEPT !.minInclusive = "0", !.maxInclusive = "10"],
       [Conditional("hn", 1, "int", CondEq(<<".", "sel">>, "b")) EXCEPT
           !.minInclusive = "0", !.maxInclusive = "10"] >>

\* The values the model sets a node of element e to.
ValuesOf(e) == IF Sch[e].type = "int" THEN {"-5", "5", "50"} ELSE {"a", "b", "c"}

\* A default store for SchemaValidate: sel is "a" and n is "5".
DefaultsOfSchemaValidate ==
    [NewNode(1, TRUE, "") EXCEPT
        !.children = << WithValue(NewNode(2, FALSE, ""), "a"),
                        WithValue(NewNode(3, FALSE, ""), "5"),
                        NewNode(4, FALSE, "") >>]

\* node.getValue(usedefault=usedefault)
ValueOf(t, p, usedefault) == IF usedefault THEN getValueOrDefault(t, p) ELSE getValue(t, p)

\* What the loop over the <option> elements leaves in opt for a node of
\* element e with this value: 0 when no option has the value (or there is
\* no value), 1 when the first that has it is disabled, 2 when it is not.
OptionOf(e, value) ==
    LET hit == {i \in 1..Len(Sch[e].options) : Sch[e].options[i].value = value}
    IN  IF value = None \/ hit = {} THEN 0
        ELSE IF Sch[e].options[CHOOSE i \in hit : \A j \in hit : i <= j].disabled THEN 1
        ELSE 2

\* node.setValue(value) as validate calls it: clearValue for None.
setValueOrClear(st, p, value, deny) ==
    IF value = None THEN clearValue(st, p, deny) ELSE setValue(st, p, value, deny)

\* An error message of validate: its kind and the node it names.
Error(kind, p) == [kind |-> kind, pos |-> p]

\* validate marks the node at p invalid and appends an error.
Invalid(v, kind, p) ==
    [v EXCEPT !.errors = Append(@, Error(kind, p)), !.validity = @ \ {p}]

RECURSIVE validateEmpty(_, _, _)
RECURSIVE validateSelect(_, _, _, _, _, _)
RECURSIVE validateBound(_, _, _, _, _, _, _)

\* The loop over emptynodes, from node i on: an error for each that is not
\* hidden.
validateEmpty(v, emptynodes, i) ==
    IF i > Len(emptynodes) THEN v
    ELSE IF isHidden(v.st.tree, emptynodes[i]) THEN validateEmpty(v, emptynodes, i + 1)
    ELSE validateEmpty(Invalid(v, "not set", emptynodes[i]), emptynodes, i + 1)

\* The loop over selectnodes, from node i on: a value that is not an
\* enabled option is replaced by the default value (repair 2, or repair 1
\* and the node hidden), else reported; the report of a node without value
\* raises an exception (None has no toPrettyString).
validateSelect(v, selectnodes, i, usedefault, repair, deny) ==
    IF i > Len(selectnodes) \/ v.st.err THEN v
    ELSE LET node == selectnodes[i]
             value == ValueOf(v.st.tree, node, usedefault)
             opt == OptionOf(NodeAt(v.st.tree, node).el, value)
         IN  IF opt = 2 THEN validateSelect(v, selectnodes, i + 1, usedefault, repair, deny)
             ELSE IF repair = 2 \/ (repair = 1 /\ isHidden(v.st.tree, node))
             THEN Then(setValueOrClear(v.st, node, getDefaultValue(v.st.tree, node), deny),
                       LAMBDA r : validateSelect([v EXCEPT !.st = r.st], selectnodes, i + 1,
                                                 usedefault, repair, deny))
             ELSE IF opt = 1
             THEN validateSelect(Invalid(v, "disabled", node), selectnodes, i + 1,
                                 usedefault, repair, deny)
             ELSE IF value = None THEN [v EXCEPT !.st.err = TRUE]
             ELSE validateSelect(Invalid(v, "non-existent", node), selectnodes, i + 1,
                                 usedefault, repair, deny)

\* The loop over lboundnodes (lower) or uboundnodes, from node i on: a
\* value beyond the bound is replaced by the bound (repair 2, or repair 1
\* and the node hidden), else reported.
validateBound(v, nodes, i, lower, usedefault, repair, deny) ==
    IF i > Len(nodes) \/ v.st.err THEN v
    ELSE LET node == nodes[i]
             e == NodeAt(v.st.tree, node).el
             value == ValueOf(v.st.tree, node, usedefault)
             bound == IF lower THEN Sch[e].minInclusive ELSE Sch[e].maxInclusive
             beyond == IF lower THEN LessThan(e, value, bound) ELSE LessThan(e, bound, value)
         IN  IF value = None \/ ~beyond
             THEN validateBound(v, nodes, i + 1, lower, usedefault, repair, deny)
             ELSE IF repair = 2 \/ (repair = 1 /\ isHidden(v.st.tree, node))
             THEN Then(setValue(v.st, node, bound, deny),
                       LAMBDA r : validateBound([v EXCEPT !.st = r.st], nodes, i + 1, lower,
                                                usedefault, repair, deny))
             ELSE validateBound(Invalid(v, IF lower THEN "below" ELSE "above", node),
                                nodes, i + 1, lower, usedefault, repair, deny)

\* A <test> element of the schema's <validation> element: the paths of
\* its <variable> elements, and the description of its <error> element,
\* whose expression is "the first variable is greater than the second".
Test(variables, description) == [variables |-> variables, description |-> description]

\* The comparison a > b of two values as the expression of a test sees
\* them (None is smaller than every value).
Greater(a, b) == a # None /\ (b = None \/ IntOf(a) > IntOf(b))

\* A variant of collectVariables that does not look at oldvalids: a node
\* that is not valid in this call does not stop the test.
collectVariables_NoHistoryCheck(v, test, i, repair, oldvalids, acc) ==
    [skipped |-> \E k \in 1..Len(test.variables) :
                    isHidden(v.st.tree, getLocation(v.st.tree, <<>>, test.variables[k]))
                    /\ repair # 0,
     hastestablenodes |-> \E k \in 1..Len(test.variables) :
                    getLocation(v.st.tree, <<>>, test.variables[k]) \in v.validity,
     valuenodes |-> [k \in 1..Len(test.variables) |->
                        getLocation(v.st.tree, <<>>, test.variables[k])]]

RECURSIVE collectVariables(_, _, _, _, _, _)

\* The loop of performTest over the <variable> elements of a test, from
\* variable i on: the test is skipped at the first variable whose node is
\* hidden while repair is not 0, or is neither valid in this call nor in
\* oldvalids; `acc` holds the nodes got so far, and whether one of them is
\* being validated and still valid.
collectVariables(v, test, i, repair, oldvalids, acc) ==
    IF i > Len(test.variables) THEN acc
    ELSE LET valuenode == getLocation(v.st.tree, <<>>, test.variables[i]) IN
         IF isHidden(v.st.tree, valuenode) /\ repair # 0 THEN [acc EXCEPT !.skipped = TRUE]
         ELSE IF valuenode \in v.validity
         THEN collectVariables(v, test, i + 1, repair, oldvalids,
                               [acc EXCEPT !.hastestablenodes = TRUE,
                                           !.valuenodes = Append(@, valuenode)])
         ELSE IF valuenode \notin oldvalids THEN [acc EXCEPT !.skipped = TRUE]
         ELSE collectVariables(v, test, i + 1, repair, oldvalids,
                               [acc EXCEPT !.valuenodes = Append(@, valuenode)])

\* performTest for the k-th test of the schema, a test that names its
\* variables: when it is not skipped and evaluates to an error, the nodes
\* of its variables that are being validated become invalid and its
\* description is appended to the errors.  The trace tells for each test
\* which nodes were valid when it started, whether it was executed and
\* whether it raised its error.
performTest(v, k, usedefault, repair, oldvalids) ==
    LET test == schema.tests[k]
        c == collectVariables(v, test, 1, repair, oldvalids,
                              [skipped |-> FALSE, hastestablenodes |-> FALSE,
                               valuenodes |-> <<>>])
        executed == ~c.skipped /\ c.hastestablenodes
        failed == executed /\ Greater(ValueOf(v.st.tree, c.valuenodes[1], usedefault),
                                      ValueOf(v.st.tree, c.valuenodes[2], usedefault))
        affectednodes == {c.valuenodes[j] : j \in 1..Len(c.valuenodes)}
    IN  [v EXCEPT !.trace = Append(@, [test |-> k, validity |-> v.validity,
                                       executed |-> executed, failed |-> failed]),
                  !.validity = IF failed THEN @ \ affectednodes ELSE @,
                  !.errors = IF failed THEN Append(@, Error(test.description, <<>>)) ELSE @]

RECURSIVE performTests(_, _, _, _, _)

\* The loop over the <test> elements of the <validation> element, from
\* test k on.
performTests(v, k, usedefault, repair, oldvalids) ==
    IF k > Len(schema.tests) \/ v.st.err THEN v
    ELSE Then(performTest(v, k, usedefault, repair, oldvalids), LAMBDA w :
              performTests(w, k + 1, usedefault, repair, oldvalids))

\* TypedStore._validate(nodes, usedefault, repair) for values without
\* expensive validation; `oldvalids` is the validation history the call
\* uses, `deny` the set of interfaces whose beforeChange handler answers
\* False to the changes validate makes.  The result is the store, the list
\* of errors, the set of validated nodes found valid, and the trace of the
\* tests.
validate(st, nodes, usedefault, repair, deny, oldvalids) ==
    LET Typed(p) == canHaveValue(NodeAt(st.tree, p).el)
        Empty(p) == Typed(p) /\ ValueOf(st.tree, p, usedefault) = None
        HasOptions(p) == Typed(p) /\ Sch[NodeAt(st.tree, p).el].options # <<>>
        HasMin(p) == Typed(p) /\ Sch[NodeAt(st.tree, p).el].minInclusive # ""
        HasMax(p) == Typed(p) /\ Sch[NodeAt(st.tree, p).el].maxInclusive # ""
        v0 == [st |-> st, errors |-> <<>>, trace |-> <<>>,
               validity |-> {nodes[i] : i \in 1..Len(nodes)}]
    IN  Then(validateEmpty(v0, SelectSeq(nodes, Empty), 1), LAMBDA v1 :
        Then(validateSelect(v1, SelectSeq(nodes, HasOptions), 1, usedefault, repair, deny),
             LAMBDA v2 :
        Then(validateBound(v2, SelectSeq(nodes, HasMin), 1, TRUE, usedefault, repair, deny),
             LAMBDA v3 :
        Then(validateBound(v3, SelectSeq(nodes, HasMax), 1, FALSE, usedefault, repair, deny),
             LAMBDA v4 :
        performTests(v4, 1, usedefault, repair, oldvalids)))))

\* A store of the schema SchemaValidate over an empty value document, with
\* or without the default store.
InitValidate ==
    /\ schema = Schema(SchemaValidate)
    /\ defaultstore \in {NoStore, DefaultsOfSchemaValidate}
    /\ interfaces = << Interface(TRUE), Interface(FALSE) >>
    /\ tree = setStore
    /\ changed = FALSE
    /\ validnodes = {}
    /\ convertorsfrom = {}
    /\ context = NoContext
    /\ objects = <<>>
    /\ log = <<>>
    /\ lastop = [op |-> "setStore", pos |-> <<>>, value |-> None, name |-> "",
                 position |-> 0, id |-> "", usedefault |-> FALSE, repair |-> 0,
                 deny |-> {}, errors |-> <<>>, before |-> NoStore]
    /\ ret = "None"

\* node.setValue(v) with a value of the node's type or None, accepted by
\* every interface.
SetValueTyped ==
    \E p \in Positions(tree) :
        /\ canHaveValue(NodeAt(tree, p).el)
        /\ \E v \in ValuesOf(NodeAt(tree, p).el) \cup {None} :
            /\ \E r \in {setValueOrClear(Begin, p, v, {})} :
                   /\ Finish(r)
                   /\ ret' = IF v = None /\ r.ret # "raised" THEN "None" ELSE r.ret
            /\ lastop' = [op |-> "setValue", pos |-> p, value |-> v, name |-> "",
                          position |-> 0, id |-> "", usedefault |-> FALSE, repair |-> 0,
                          deny |-> {}, errors |-> <<>>, before |-> NoStore]

\* store.validate(usedefault=..., repair=..., usehistory=False) for all
\* nodes: ret is "errors" when it returns its list of errors, kept in
\* lastop together with the tree before the call.
Validate ==
    \E usedefault \in BOOLEAN, repair \in 0..2, deny \in {{}, {1}} :
        \E r \in {validate(Begin, getDescendants(tree, <<>>), usedefault, repair, deny, {})} :
            /\ Finish(r)
            /\ ret' = IF r.st.err THEN "raised" ELSE "errors"
            /\ lastop' = [op |-> "validate", pos |-> <<>>, value |-> None, name |-> "",
                          position |-> 0, id |-> "", usedefault |-> usedefault,
                          repair |-> repair, deny |-> deny,
                          errors |-> IF r.st.err THEN <<>> ELSE r.errors,
                          before |-> tree]

NextValidate == SetValueTyped \/ Validate

SpecValidate == InitValidate /\ [][NextValidate]_vars

\* The last operation was a validate.
ValidateCall == lastop.op = "validate"

\* How many of the errors validate returned are of this kind and name the
\* node at p.
Reported(kind, p) ==
    Cardinality({i \in 1..Len(lastop.errors) : lastop.errors[i] = Error(kind, p)})

\* The value-capable nodes of the store validate was called on.
Validated == {p \in Positions(lastop.before) : canHaveValue(NodeAt(lastop.before, p).el)}

\* The value validate looked at for the node at p.
Checked(p) == ValueOf(lastop.before, p, lastop.usedefault)

\* The node at p has a maximum and the value validate looked at lies above
\* it.
AboveMaximum(p) ==
    /\ Sch[NodeAt(lastop.before, p).el].maxInclusive # "" /\ Checked(p) # None
    /\ IntOf(Checked(p)) > IntOf(Sch[NodeAt(lastop.before, p).el].maxInclusive)

\* The node at p has a minimum and the value validate looked at lies below
\* it.
BelowMinimum(p) ==
    /\ Sch[NodeAt(lastop.before, p).el].minInclusive # "" /\ Checked(p) # None
    /\ IntOf(Checked(p)) < IntOf(Sch[NodeAt(lastop.before, p).el].minInclusive)

\* The node at p has options and the value validate looked at is not one
\* of the enabled ones.
BadOption(p) ==
    /\ Sch[NodeAt(lastop.before, p).el].options # <<>>
    /\ ~\E i \in 1..Len(Sch[NodeAt(lastop.before, p).el].options) :
           /\ Sch[NodeAt(lastop.before, p).el].options[i].value = Checked(p)
           /\ ~Sch[NodeAt(lastop.before, p).el].options[i].disabled

\* C18: for a validated node with minInclusive/maxInclusive whose value
\* lies above the maximum (below the minimum), validate with repair=0
\* reports exactly one error for that bound and leaves the value
\* unchanged, and validate with repair=2 reports no error for it and
\* afterwards the node's value is the violated bound.
C18_BoundsReportedOrRepaired ==
    ValidateCall =>
        \A p \in Validated :
            /\ AboveMaximum(p) =>
                  /\ lastop.repair = 0 =>
                        /\ ret = "errors" /\ Reported("above", p) = 1
                        /\ getValue(tree, p) = getValue(lastop.before, p)
                  /\ lastop.repair = 2 =>
                        /\ ret = "errors" /\ Reported("above", p) = 0
                        /\ getValue(tree, p) = Sch[NodeAt(tree, p).el].maxInclusive
            /\ BelowMinimum(p) =>
                  /\ lastop.repair = 0 =>
                        /\ ret = "errors" /\ Reported("below", p) = 1
                        /\ getValue(tree, p) = getValue(lastop.before, p)
                  /\ lastop.repair = 2 =>
                        /\ ret = "errors" /\ Reported("below", p) = 0
                        /\ getValue(tree, p) = Sch[NodeAt(tree, p).el].minInclusive

\* C19: validate with repair=0 changes no value and no structure of the
\* tree; validate with repair=1 changes the value only of nodes that are
\* hidden, and for every visible node with a value out of bounds or an
\* absent or disabled option it reports an error and leaves the value.
C19_RepairLevels ==
    ValidateCall =>
        /\ lastop.repair = 0 => tree = lastop.before
        /\ lastop.repair = 1 =>
              \A p \in Validated :
                  /\ getValue(tree, p) # getValue(lastop.before, p)
                        => isHidden(lastop.before, p)
                  /\ (~isHidden(lastop.before, p)
                        /\ (AboveMaximum(p) \/ BelowMinimum(p) \/ BadOption(p)))
                        => /\ ret = "errors"
                           /\ \E i \in 1..Len(lastop.errors) : lastop.errors[i].pos = p
                           /\ getValue(tree, p) = getValue(lastop.before, p)

\* C20: validate reports exactly one "has not been set" error for each
\* validated value-capable node that is not hidden and has no explicit
\* value and (with usedefault) no default value, and none for a hidden node
\* or a node with a value; for a node that was set to a value within its
\* bounds (and among its enabled options) it reports no error.
C20_UnsetReportedOnce ==
    ValidateCall =>
        \A p \in Validated :
            /\ (Checked(p) = None /\ ~isHidden(lastop.before, p))
                  => ret = "errors" /\ Reported("not set", p) = 1
            /\ (Checked(p) # None \/ isHidden(lastop.before, p))
                  => Reported("not set", p) = 0
            /\ (/\ getValue(lastop.before, p) # None
                /\ ~AboveMaximum(p) /\ ~BelowMinimum(p) /\ ~BadOption(p))
                  => ~\E i \in 1..Len(lastop.errors) : lastop.errors[i].pos = p

\* ------------------------------------------------------------------------
\* Validation rules and the validation history
\* ------------------------------------------------------------------------

\* Three integers, the last one hidden.
SchemaRules ==
    << Element("root", 0, ""),
       Element("x", 1, "int"),
       Element("y", 1, "int"),
       [Element("z", 1, "int") EXCEPT !.hidden = TRUE] >>

\* The <validation> element used with SchemaRules: x must not exceed y,
\* and y must not exceed z.
TestsRules ==
    << Test(<< <<"x">>, <<"y">> >>, "x exceeds y"),
       Test(<< <<"y">>, <<"z">> >>, "y exceeds z") >>

\* A variant of updateValidationHistory that adds the nodes found valid
\* and takes none out.
updateValidationHistory_AddOnly(history, nodes, validity) == history \cup validity

\* TypedStore.updateValidationHistory: the nodes found valid are added to
\* the history, the validated nodes found invalid are taken out of it.
updateValidationHistory(history, nodes, validity) ==
    (history \ {nodes[i] : i \in 1..Len(nodes)}) \cup validity

\* A store of the schema SchemaRules with its tests, over an empty value
\* document.
InitRules ==
    /\ schema = [Schema(SchemaRules) EXCEPT !.tests = TestsRules]
    /\ defaultstore = NoStore
    /\ interfaces = << Interface(TRUE), Interface(FALSE) >>
    /\ tree = setStore
    /\ changed = FALSE
    /\ validnodes = {}
    /\ convertorsfrom = {}
    /\ context = NoContext
    /\ objects = <<>>
    /\ log = <<>>
    /\ lastop = [op |-> "setStore", pos |-> <<>>, value |-> None, name |-> "",
                 position |-> 0, id |-> "", nodes |-> <<>>, usehistory |-> FALSE,
                 repair |-> 0, errors |-> <<>>, trace |-> <<>>, validity |-> {},
                 oldvalids |-> {}]
    /\ ret = "None"

\* node.setValue(v) with an integer, accepted by every interface.
SetValueRules ==
    \E p \in Positions(tree), v \in {"5", "50"} :
        /\ canHaveValue(NodeAt(tree, p).el)
        /\ \E r \in {setValue(Begin, p, v, {})} : Finish(r) /\ ret' = r.ret
        /\ lastop' = [op |-> "setValue", pos |-> p, value |-> v, name |-> "",
                      position |-> 0, id |-> "", nodes |-> <<>>, usehistory |-> FALSE,
                      repair |-> 0, errors |-> <<>>, trace |-> <<>>, validity |-> {},
                      oldvalids |-> {}]

\* store.validate(nodes, repair=..., usehistory=...) for all nodes or for
\* some of the nodes that can have a value: the history is updated when
\* usehistory is set.  lastop keeps the arguments, the errors returned,
\* what happened to each test, the validated nodes found valid, and the
\* history before the call.
ValidateNodes ==
    \E S \in (SUBSET {p \in Positions(tree) : canHaveValue(NodeAt(tree, p).el)})
                \cup {Positions(tree)},
       usehistory \in BOOLEAN, repair \in 0..1 :
        LET In(p) == p \in S
            nodes == SelectSeq(getDescendants(tree, <<>>), In)
        IN  \E r \in {validate(Begin, nodes, TRUE, repair, {},
                               IF usehistory THEN validnodes ELSE {})} :
                /\ tree' = r.st.tree
                /\ changed' = r.st.changed
                /\ log' = r.st.log
                /\ validnodes' = IF usehistory /\ ~r.st.err
                                 THEN updateValidationHistory(validnodes, nodes, r.validity)
                                 ELSE validnodes
                /\ ret' = IF r.st.err THEN "raised" ELSE "errors"
                /\ lastop' = [op |-> "validate", pos |-> <<>>, value |-> None, name |-> "",
                              position |-> 0, id |-> "", nodes |-> nodes,
                              usehistory |-> usehistory, repair |-> repair,
                              errors |-> r.errors, trace |-> r.trace,
                              validity |-> r.validity, oldvalids |-> validnodes]
                /\ UNCHANGED <<schema, defaultstore, interfaces, convertorsfrom, context,
                             objects>>

NextRules == SetValueRules \/ ValidateNodes

SpecRules == InitRules /\ [][NextRules]_vars

\* The nodes the variables of the k-th test refer to.
Referenced(k) ==
    {getLocation(tree, <<>>, schema.tests[k].variables[j]) :
        j \in 1..Len(schema.tests[k].variables)}

\* The validated nodes of the last validate call.
ValidatedSet == {lastop.nodes[i] : i \in 1..Len(lastop.nodes)}

\* C21: a rule that names specific paths is executed in a validate call
\* only if every node it refers to is either being validated and not marked
\* invalid so far in this call, or in the validity history of the prior
\* pass; a rule with a node that is neither is skipped and adds no error.
C21_RuleNeedsValidNodes ==
    ValidateCall =>
        \A i \in 1..Len(lastop.trace) :
            LET t == lastop.trace[i]
                usable == \A p \in Referenced(t.test) :
                              \/ p \in ValidatedSet /\ p \in t.validity
                              \/ p \in lastop.oldvalids
            IN  /\ t.executed => usable
                /\ ~usable => /\ ~t.executed /\ ~t.failed
                              /\ ~\E j \in 1..Len(lastop.errors) :
                                     /\ lastop.errors[j].kind = schema.tests[t.test].description
                                     /\ \A h \in 1..Len(lastop.trace) :
                                            lastop.trace[h].failed => lastop.trace[h].test # t.test

\* A rule was executed with one node valid in this call and the other only
\* in the history, and another rule of the same call was skipped because a
\* node of it was neither.
C21_Witness ==
    /\ ValidateCall /\ lastop.usehistory
    /\ \E i \in 1..Len(lastop.trace) :
           /\ lastop.trace[i].executed
           /\ \E p \in Referenced(lastop.trace[i].test) :
                  p \notin ValidatedSet /\ p \in lastop.oldvalids
    /\ \E i \in 1..Len(lastop.trace) :
           /\ ~lastop.trace[i].executed
           /\ \E p \in Referenced(lastop.trace[i].test) :
                  p \notin lastop.trace[i].validity /\ p \notin lastop.oldvalids

\* The tests of the last validate call that raised their error.
FailedTests == {lastop.trace[i].test : i \in {i \in 1..Len(lastop.trace) : lastop.trace[i].failed}}

\* C22: after validate(nodes, usehistory=True) the validity history is the
\* previous history without the validated nodes found invalid and with the
\* validated nodes found valid, the membership of nodes that were not
\* validated is unchanged, and no node referenced by a rule that failed in
\* this call is left in the history; with usehistory=False the history is
\* unchanged.
C22_HistoryMerged ==
    (ValidateCall /\ ret = "errors") =>
        /\ lastop.usehistory =>
              /\ validnodes = (lastop.oldvalids \ (ValidatedSet \ lastop.validity))
                                  \cup lastop.validity
              /\ \A p \in Positions(tree) \ ValidatedSet :
                     (p \in validnodes) = (p \in lastop.oldvalids)
              /\ \A k \in FailedTests : Referenced(k) \cap validnodes = {}
        /\ ~lastop.usehistory => validnodes = lastop.oldvalids

\* C22 (amended): as C22, but of the nodes referenced by a rule that failed
\* in this call only those that were validated in this call are out of the
\* history afterwards.
C22_HistoryMergedValidated ==
    (ValidateCall /\ ret = "errors") =>
        /\ lastop.usehistory =>
              /\ validnodes = (lastop.oldvalids \ (ValidatedSet \ lastop.validity))
                                  \cup lastop.validity
              /\ \A p \in Positions(tree) \ ValidatedSet :
                     (p \in validnodes) = (p \in lastop.oldvalids)
              /\ \A k \in FailedTests : Referenced(k) \cap ValidatedSet \cap validnodes = {}
        /\ ~lastop.usehistory => validnodes = lastop.oldvalids

\* A validate call with usehistory=True in which a rule failed, a
\* validated node found invalid left the history and a node of the failed
\* rule that was not validated stayed in it.
C22_Witness ==
    /\ ValidateCall /\ ret = "errors" /\ lastop.usehistory
    /\ FailedTests # {}
    /\ \E p \in ValidatedSet : p \in lastop.oldvalids /\ p \notin validnodes
    /\ \E k \in FailedTests : \E p \in Referenced(k) \ ValidatedSet : p \in validnodes


\* ------------------------------------------------------------------------
\* SchemaInfo: conversion between versions
\* ------------------------------------------------------------------------

\* The versions there are schemas of: the first MaxVersions of the names,
\* in the order of their names.
MaxVersions == 4
VersionNames == << "v1", "v2", "v3", "v4", "v5", "v6" >>
Versions == {VersionNames[i] : i \in 1..MaxVersions}

\* The converter classes there are to register, each with its
\* fixedsourceid and fixedtargetid: a converter of v1 to itself, a
\* conversion in both directions between v1 and v2, two routes of two
\* steps and one of three from v1 to v4, and the direct conversion.
ConverterClasses ==
    { <<"v1", "v1">>, <<"v1", "v2">>, <<"v2", "v1">>, <<"v2", "v3">>,
      <<"v3", "v4">>, <<"v1", "v3">>, <<"v2", "v4">>, <<"v1", "v4">> }

\* The versions conversions are asked from.
SourceVersions == {"v1", "v2"}

\* An instance of the converter class registered for sourceid and targetid.
Convertor(sourceid, targetid) ==
    [kind |-> "Convertor", sourceid |-> sourceid, targetid |-> targetid, chain |-> <<>>]

\* versioning.ConvertorChain(chain): the converters of the chain, in order.
ConvertorChain(chain) ==
    [kind |-> "ConvertorChain", sourceid |-> chain[1].sourceid,
     targetid |-> chain[Len(chain)].targetid, chain |-> chain]

\* getConverter's None.
NoConvertor == [kind |-> "None", sourceid |-> "", targetid |-> "", chain |-> <<>>]

\* getConverters().get(sourceid,{}).keys(): the versions sourceid has a
\* direct converter to, in the order the dictionary gives them (by name,
\* or the reverse).
Keys(sourceid, reversed) ==
    LET names == [i \in 1..MaxVersions |->
                     VersionNames[IF reversed THEN MaxVersions + 1 - i ELSE i]]
    IN  SelectSeq(names, LAMBDA v : <<sourceid, v>> \in convertorsfrom)

\* A variant of findIndirectConversion that takes a step to the target
\* before it looks whether the version is disallowed.
RECURSIVE findIndirectConversion_TargetFirst(_, _, _, _)
findIndirectConversion_TargetFirst(sourceid, targetid, disallowed, reversed) ==
    LET next == Keys(sourceid, reversed)
        curdisallowed == disallowed \o <<sourceid>>
    IN  Flatten([i \in 1..Len(next) |->
            IF next[i] = targetid THEN << <<sourceid, next[i]>> >>
            ELSE IF \E k \in 1..Len(curdisallowed) : curdisallowed[k] = next[i] THEN <<>>
            ELSE LET childroutes == findIndirectConversion_TargetFirst(
                                        next[i], targetid, curdisallowed, reversed)
                 IN  [j \in 1..Len(childroutes) |-> <<sourceid>> \o childroutes[j]]])

\* SchemaInfo.findIndirectConversion: the routes from sourceid to targetid
\* that use none of the disallowed versions, nor sourceid, a second time.
RECURSIVE findIndirectConversion(_, _, _, _)
findIndirectConversion(sourceid, targetid, disallowed, reversed) ==
    LET next == Keys(sourceid, reversed)
        curdisallowed == disallowed \o <<sourceid>>
    IN  Flatten([i \in 1..Len(next) |->
            IF \E k \in 1..Len(curdisallowed) : curdisallowed[k] = next[i] THEN <<>>
            ELSE IF next[i] = targetid THEN << <<sourceid, next[i]>> >>
            ELSE LET childroutes == findIndirectConversion(
                                        next[i], targetid, curdisallowed, reversed)
                 IN  [j \in 1..Len(childroutes) |-> <<sourceid>> \o childroutes[j]]])

\* A variant of the sort that leaves the routes in the order they were found.
sortByLen_Unsorted(routes) == routes

\* indirectroutes.sort(key=len): shorter routes first, routes of one length
\* in the order they had.
sortByLen(routes) ==
    Flatten([n \in 1..(MaxVersions + 1) |-> SelectSeq(routes, LAMBDA r : Len(r) = n)])

\* SchemaInfo.getConverter: the direct converter when one is registered;
\* else, unless directonly, the chain of the direct converters along the
\* first of the shortest indirect routes; else None.
getConverter(sourceid, targetid, directonly, reversed) ==
    IF <<sourceid, targetid>> \in convertorsfrom THEN Convertor(sourceid, targetid)
    ELSE IF directonly THEN NoConvertor
    ELSE LET indirectroutes == sortByLen(findIndirectConversion(sourceid, targetid, <<>>, reversed))
         IN  IF Len(indirectroutes) > 0
             THEN LET route == indirectroutes[1]
                  IN  ConvertorChain([istep \in 1..(Len(route) - 1) |->
                          IF <<route[istep], route[istep + 1]>> \in convertorsfrom
                          THEN Convertor(route[istep], route[istep + 1])
                          ELSE NoConvertor])
             ELSE NoConvertor

\* The values of a store as conversion sees them: its version, the tree the
\* values come from (NoStore for a store just made), and the conversions
\* the values went through.
Store(version, root, steps) == [version |-> version, root |-> root, steps |-> steps]

\* Convertor.convert(source, target) of a direct converter: the target
\* gets the values of the source, converted; a source of another version
\* than the converter's gives nothing valid.
convertDirect(convertor, source) ==
    IF source.version = convertor.sourceid
    THEN Store(convertor.targetid, source.root,
               Append(source.steps, <<convertor.sourceid, convertor.targetid>>))
    ELSE Store("invalid", source.root, source.steps)

\* ConvertorChain.convert: each converter of the chain is applied to the
\* result of the one before it.
RECURSIVE convertChain(_, _)
convertChain(chain, source) ==
    IF chain = <<>> THEN source
    ELSE convertChain(Tail(chain), convertDirect(Head(chain), source))

\* convertor.convert(source, target): what the target holds afterwards.
convertStore(convertor, source) ==
    IF convertor.kind = "Convertor" THEN convertDirect(convertor, source)
    ELSE convertChain(convertor.chain, source)

\* A variant of convert that does not look whether there is a converter.
convert_Unchecked(target, isstring, reversed) ==
    LET self == Store(schema.version, tree, <<>>) IN
    IF target.version = schema.version
    THEN [ret |-> IF isstring THEN "self" ELSE "target", target |-> target]
    ELSE [ret |-> "target",
          target |-> convertStore(getConverter(schema.version, target.version, FALSE, reversed),
                                  self)]

\* TypedStore.convert(target): the store itself for its own version, the
\* target for a target of the same version, an exception when there is no
\* converter, else the target with the converted values.  A target given
\* as a version (isstring) is a new store of that version.
convert(target, isstring, reversed) ==
    LET self == Store(schema.version, tree, <<>>) IN
    IF target.version = schema.version
    THEN [ret |-> IF isstring THEN "self" ELSE "target", target |-> target]
    ELSE LET convertor == getConverter(schema.version, target.version, FALSE, reversed)
         IN  IF convertor = NoConvertor
             THEN [ret |-> "raised", target |-> target]
             ELSE [ret |-> "target", target |-> convertStore(convertor, self)]

\* A store of version v1 and a SchemaInfo without converters.
InitConvert ==
    /\ schema = [Schema(SchemaPlain) EXCEPT !.version = "v1"]
    /\ defaultstore = NoStore
    /\ interfaces = << Interface(TRUE), Interface(FALSE) >>
    /\ tree = setStore
    /\ changed = FALSE
    /\ validnodes = {}
    /\ convertorsfrom = {}
    /\ context = NoContext
    /\ objects = <<>>
    /\ log = <<>>
    /\ lastop = [op |-> "setStore", sourceid |-> "", targetid |-> "", reversed |-> FALSE,
                 routes |-> <<>>, convertor |-> NoConvertor,
                 target |-> Store("", NoStore, <<>>), result |-> Store("", NoStore, <<>>)]
    /\ ret = "None"

\* The part of the state conversion leaves alone.
UnchangedByConversion ==
    UNCHANGED <<schema, tree, defaultstore, interfaces, changed, validnodes, context,
                objects, log>>

\* SchemaInfo.addConverter(convertorclass) with a class not registered yet.
AddConverter ==
    \E c \in ConverterClasses \ convertorsfrom :
        /\ convertorsfrom' = convertorsfrom \cup {c}
        /\ lastop' = [lastop EXCEPT !.op = "addConverter", !.sourceid = c[1],
                         !.targetid = c[2], !.routes = <<>>, !.convertor = NoConvertor,
                         !.reversed = FALSE,
                         !.target = Store("", NoStore, <<>>),
                         !.result = Store("", NoStore, <<>>)]
        /\ ret' = "None"
        /\ UnchangedByConversion

\* schemainfo.findIndirectConversion(sourceid, targetid).
FindIndirectConversion ==
    \E sourceid \in SourceVersions, targetid \in Versions, reversed \in BOOLEAN :
        /\ lastop' = [lastop EXCEPT !.op = "findIndirectConversion", !.sourceid = sourceid,
                         !.targetid = targetid, !.reversed = reversed,
                         !.routes = findIndirectConversion(sourceid, targetid, <<>>, reversed),
                         !.convertor = NoConvertor,
                         !.target = Store("", NoStore, <<>>),
                         !.result = Store("", NoStore, <<>>)]
        /\ ret' = "routes"
        /\ UNCHANGED convertorsfrom
        /\ UnchangedByConversion

\* schemainfo.getConverter(sourceid, targetid).
GetConverter ==
    \E sourceid \in SourceVersions, targetid \in Versions, reversed \in BOOLEAN :
        /\ \E c \in {getConverter(sourceid, targetid, FALSE, reversed)} :
              /\ lastop' = [lastop EXCEPT !.op = "getConverter", !.sourceid = sourceid,
                               !.targetid = targetid, !.reversed = reversed,
                               !.routes = <<>>, !.convertor = c,
                               !.target = Store("", NoStore, <<>>),
                               !.result = Store("", NoStore, <<>>)]
              /\ ret' = IF c = NoConvertor THEN "None" ELSE "convertor"
        /\ UNCHANGED convertorsfrom
        /\ UnchangedByConversion

\* store.convert(target) with a version or with a store that holds values
\* of its own.
Convert ==
    \E version \in Versions, isstring \in BOOLEAN, reversed \in BOOLEAN :
        /\ \E target \in {IF isstring THEN Store(version, NoStore, <<>>)
                                     ELSE Store(version, setStore, <<>>)} :
           \E r \in {convert(target, isstring, reversed)} :
              /\ lastop' = [lastop EXCEPT !.op = "convert", !.sourceid = schema.version,
                               !.targetid = version, !.reversed = reversed,
                               !.routes = <<>>, !.convertor = NoConvertor,
                               !.target = target, !.result = r.target]
              /\ ret' = r.ret
        /\ UNCHANGED convertorsfrom
        /\ UnchangedByConversion

NextConvert == AddConverter \/ FindIndirectConversion \/ GetConverter \/ Convert

SpecConvert == InitConvert /\ [][NextConvert]_vars

\* The simple routes from s to t: the sequences of versions from s to t in
\* which each step is a registered direct conversion and no version occurs
\* twice.
SimpleRoutes(s, t) ==
    {r \in UNION {[1..n -> Versions] : n \in 2..MaxVersions} :
        /\ r[1] = s /\ r[Len(r)] = t
        /\ \A i \in 1..(Len(r) - 1) : <<r[i], r[i + 1]>> \in convertorsfrom
        /\ \A i, j \in 1..Len(r) : i # j => r[i] # r[j]}

\* C23: getConverter(s,t) returns the registered direct converter when
\* there is one; otherwise, when there is a simple route from s to t, it
\* returns the chain of the registered direct converters along a simple
\* route with the fewest hops, in route order, and applying the chain to a
\* store of version s gives what applying those converters one after
\* another gives.
C23_DirectOrShortestChain ==
    lastop.op = "getConverter" =>
        LET s == lastop.sourceid
            t == lastop.targetid
            c == lastop.convertor
        IN  IF <<s, t>> \in convertorsfrom
            THEN c = Convertor(s, t)
            ELSE SimpleRoutes(s, t) # {} =>
                 \E r \in SimpleRoutes(s, t) :
                    /\ \A q \in SimpleRoutes(s, t) : Len(r) <= Len(q)
                    /\ c.kind = "ConvertorChain"
                    /\ c.chain = [i \in 1..(Len(r) - 1) |-> Convertor(r[i], r[i + 1])]
                    /\ convertStore(c, Store(s, tree, <<>>))
                         = Store(t, tree, [i \in 1..(Len(r) - 1) |-> <<r[i], r[i + 1]>>])

\* getConverter returned a chain although a longer simple route, and a
\* second route as short as the one taken, were there as well.
C23_Witness ==
    /\ lastop.op = "getConverter"
    /\ lastop.convertor.kind = "ConvertorChain"
    /\ \E q \in SimpleRoutes(lastop.sourceid, lastop.targetid) :
          Len(q) > Len(lastop.convertor.chain) + 1
    /\ Cardinality({q \in SimpleRoutes(lastop.sourceid, lastop.targetid) :
                       Len(q) = Len(lastop.convertor.chain) + 1}) > 1

\* C24: findIndirectConversion returns (it terminates) for every registry,
\* with cycles and self-loops too, and every route it returns starts at the
\* source, ends at the target, takes only registered direct conversions
\* and visits no version twice; no route is returned twice.
C24_RoutesAreSimple ==
    lastop.op = "findIndirectConversion" =>
        /\ \A k \in 1..Len(lastop.routes) :
              LET r == lastop.routes[k] IN
              /\ Len(r) >= 2
              /\ r[1] = lastop.sourceid
              /\ r[Len(r)] = lastop.targetid
              /\ \A i \in 1..(Len(r) - 1) : <<r[i], r[i + 1]>> \in convertorsfrom
              /\ \A i, j \in 1..Len(r) : i # j => r[i] # r[j]
        /\ \A k, l \in 1..Len(lastop.routes) : k # l => lastop.routes[k] # lastop.routes[l]

\* findIndirectConversion returned routes from v1 in a registry with the
\* self-converter of v1 and the cycle between v1 and v2.
C24_Witness ==
    /\ lastop.op = "findIndirectConversion"
    /\ {<<"v1", "v1">>, <<"v1", "v2">>, <<"v2", "v1">>} \subseteq convertorsfrom
    /\ lastop.sourceid = "v1"
    /\ Len(lastop.routes) > 1

\* There is a directed route of one or more hops from s to t: a sequence
\* of registered direct conversions, versions visited more than once or not.
HasRoute(s, t) ==
    \E r \in UNION {[1..n -> Versions] : n \in 2..(MaxVersions + 1)} :
        /\ r[1] = s /\ r[Len(r)] = t
        /\ \A i \in 1..(Len(r) - 1) : <<r[i], r[i + 1]>> \in convertorsfrom

\* convert() to another version without a route raises, and the values of
\* the store and of the supplied target are what they were.
ConvertFailsCleanly ==
    (/\ lastop.op = "convert"
     /\ lastop.targetid # schema.version
     /\ ~HasRoute(schema.version, lastop.targetid))
    => /\ ret = "raised"
       /\ lastop.result = lastop.target
       /\ tree = setStore
       /\ changed = FALSE

\* C25 as stated: getConverter(s,t) returns no converter exactly when the
\* registry has no directed route of one or more hops from s to t; convert()
\* to a different version without a route fails and changes neither store.
C25_NoneIffNoRoute ==
    /\ lastop.op = "getConverter" =>
          ((lastop.convertor = NoConvertor) <=> ~HasRoute(lastop.sourceid, lastop.targetid))
    /\ ConvertFailsCleanly

\* C25: getConverter(s,t) for two different versions returns no converter
\* exactly when the registry has no directed route from s to t;
\* getConverter(s,s) returns no converter exactly when no converter of s to
\* itself is registered, whatever cycles lead back to s; convert() to a
\* different version without a route fails and changes neither store.
C25_NoneIffNoSimpleRoute ==
    /\ lastop.op = "getConverter" =>
          ((lastop.convertor = NoConvertor) <=>
              IF lastop.sourceid = lastop.targetid
              THEN <<lastop.sourceid, lastop.targetid>> \notin convertorsfrom
              ELSE ~HasRoute(lastop.sourceid, lastop.targetid))
    /\ ConvertFailsCleanly

\* convert() with a target store that holds values raised, in a registry
\* that converts the store's version to other versions but not to the
\* target's.
C25_Witness ==
    /\ lastop.op = "convert"
    /\ ret = "raised"
    /\ lastop.target.root # NoStore
    /\ \E v \in Versions : v # schema.version /\ HasRoute(schema.version, v)
    /\ \E v \in Versions : HasRoute(v, lastop.targetid)


\* ------------------------------------------------------------------------
\* Handlers that change the store
\* ------------------------------------------------------------------------

\* An afterChange handler that changes the store: connected to interface
\* `iface`, it answers a change of the node at `on` with
\* node.setValue(value) on the node at `node`.
Handler(iface, on, node, value) == [iface |-> iface, on |-> on, node |-> node, value |-> value]

\* The return of the handler of interface i from a call for the node at p.
HandlerReturns(t, i, p) ==
    Event("handlerReturns", i, p, NodeAt(t, p), "", FALSE, FALSE, TRUE)

\* TypedStore.onChange with handler h connected, from interface i on: no
\* interface is in blockedinterfaces (it is empty except during setStore),
\* so each interface is called in turn; the call of h's handler for h.on
\* runs h's setValue, with everything that does, before the next interface
\* is called.  Then the dependants of the node are updated.
RECURSIVE onChangeHandled(_, _, _, _, _)
onChangeHandled(st, p, feature, h, i) ==
    IF i > Len(interfaces) THEN updateDependantNodes(st, p)
    ELSE LET delivered == ChangeDelivered(st.tree, i, "afterChange", p)
             s1 == [st EXCEPT !.log = Append(@,
                       Event("afterChange", i, p, NodeAt(st.tree, p), feature,
                             FALSE, FALSE, delivered))]
         IN  IF delivered /\ i = h.iface /\ p = h.on
             THEN Then(setValue(s1, h.node, h.value, {}).st, LAMBDA s2 :
                  onChangeHandled([s2 EXCEPT !.log = Append(@, HandlerReturns(s2.tree, i, p))],
                                  p, feature, h, i + 1))
             ELSE onChangeHandled(s1, p, feature, h, i + 1)

\* Node.setValue with handler h connected.
setValueHandled(st, p, value, h) ==
    LET curval == getValue(st.tree, p) IN
    IF curval = value THEN Result(st, "False")
    ELSE Then(onBeforeChange(st, p, value, {}, 1), LAMBDA b :
         IF ~b.allowed THEN Result(b.st, "False")
         ELSE Then(createValueNode(b.st, p, FALSE), LAMBDA s1 :
              IF s1.err THEN Result(s1, "raised")
              ELSE LET s2 == [s1 EXCEPT !.tree =
                                 Replace(@, p, [NodeAt(s1.tree, p) EXCEPT !.val = value])]
                   IN  Then(onChangeHandled([s2 EXCEPT !.changed = TRUE], p, "value", h, 1),
                            LAMBDA s3 : Result(s3, "True"))))

\* The positions of the nodes that can have a value.
ValuePositions == {p \in Positions(tree) : canHaveValue(NodeAt(tree, p).el)}

\* A store of schema 1 over an empty document with two interfaces.
InitHandled ==
    /\ schema = Schema(SchemaPlain)
    /\ defaultstore = NoStore
    /\ interfaces = << Interface(TRUE), Interface(FALSE) >>
    /\ tree = setStore
    /\ changed = FALSE
    /\ validnodes = {}
    /\ convertorsfrom = {}
    /\ context = NoContext
    /\ objects = <<>>
    /\ log = <<>>
    /\ lastop = [op |-> "setStore", pos |-> <<>>, value |-> None,
                 handler |-> Handler(0, <<>>, <<>>, None)]
    /\ ret = "None"

\* node.setValue(v) while one of the interfaces has a handler that answers
\* the change of one node by setting another.
SetValueHandled ==
    \E p \in ValuePositions, v \in Values, i \in 1..Len(interfaces) :
      \E on \in ValuePositions, node \in ValuePositions, hv \in Values :
        /\ on # node
        /\ \E r \in {setValueHandled(Begin, p, v, Handler(i, on, node, hv))} :
               Finish(r) /\ ret' = r.ret
        /\ lastop' = [op |-> "setValue", pos |-> p, value |-> v,
                      handler |-> Handler(i, on, node, hv)]

NextHandled == SetValueHandled

SpecHandled == InitHandled /\ [][NextHandled]_vars

\* C26: while the afterChange handler of an interface runs (between the
\* call that reached the handler and the handler's return), no other
\* afterChange call reaches the handler of that same interface.
C26_NoNestedNotification ==
    \A a, b, c \in 1..Len(log) :
        (/\ a < b /\ b < c
         /\ log[a].kind = "afterChange" /\ log[a].delivered
         /\ log[a].iface = lastop.handler.iface /\ log[a].node = lastop.handler.on
         /\ log[c].kind = "handlerReturns" /\ log[c].iface = log[a].iface)
        => ~(log[b].kind = "afterChange" /\ log[b].iface = log[a].iface /\ log[b].delivered)


\* ------------------------------------------------------------------------
\* TypedStoreInterface: what an interface shows of the tree
\* ------------------------------------------------------------------------

\* A schema with groupers: the container "grp" (grouponly="True") is shown
\* unless "mode" is a; it holds the variable "leaf", shown while "sel" is
\* a (or unset), a second grouper "inner" (grouponly="gui") with a
\* container of its own, and a container "item".  "hid" is a container
\* with hidden="True".
SchemaView ==
    << Element("root", 0, ""),
       Element("mode", 1, "string"),
       Element("sel", 1, "string"),
       [Conditional("grp", 1, "", CondNe(<<".", "mode">>, "a")) EXCEPT !.grouponly = {"True"}],
       Conditional("leaf", 4, "string", CondEq(<<"..", "sel">>, "a")),
       [Element("inner", 4, "") EXCEPT !.grouponly = {"gui"}],
       Element("deep", 6, ""),
       Element("item", 4, ""),
       [Element("hid", 1, "") EXCEPT !.hidden = TRUE],
       Element("under", 9, ""),
       Element("tail", 1, "") >>

\* The interface with index i shows hidden nodes or not, and leaves
\* groupers out or not: the four configurations.
InterfacesView ==
    << TypedStoreInterface(TRUE, FALSE, 0), TypedStoreInterface(FALSE, FALSE, 0),
       TypedStoreInterface(TRUE, TRUE, 0), TypedStoreInterface(FALSE, TRUE, 0) >>

\* A store of the schema with groupers over an empty document, with an
\* interface of each configuration.
InitView ==
    /\ schema = Schema(SchemaView)
    /\ defaultstore = NoStore
    /\ interfaces = InterfacesView
    /\ tree = setStore
    /\ changed = FALSE
    /\ validnodes = {}
    /\ convertorsfrom = {}
    /\ context = NoContext
    /\ objects = <<>>
    /\ log = <<>>
    /\ lastop = [op |-> "setStore", pos |-> <<>>, value |-> None, name |-> "",
                 position |-> 0, id |-> ""]
    /\ ret = "None"

\* node.setValue(v), or node.clearValue() for None, on a node that can have
\* a value; no handler denies the change.
SetValueView ==
    \E p \in ValuePositions, v \in Values \cup {None} :
        /\ \E r \in {IF v = None THEN clearValue(Begin, p, {}) ELSE setValue(Begin, p, v, {})} :
               /\ Finish(r)
               /\ ret' = IF v = None /\ r.ret # "raised" THEN "None" ELSE r.ret
        /\ lastop' = [op |-> "setValue", pos |-> p, value |-> v, name |-> "",
                      position |-> 0, id |-> ""]

\* The largest index getChildByIndex is asked for.
MaxIndex == 8

\* Interface i is asked what it shows below the node at p: the count, the
\* children, the child at each index, and for each child its parent and
\* its own index.  None of the calls assigns to anything of the store.
Traverse ==
    \E i \in 1..Len(interfaces), p \in Positions(tree) :
        LET iface == interfaces[i]
            children == getChildren(iface, tree, p)
        IN  /\ lastop' = [op |-> "traverse", iface |-> i, pos |-> p,
                          count |-> getChildCount(iface, tree, p),
                          children |-> children,
                          byindex |-> [index \in -1..MaxIndex |->
                                          getChildByIndex(iface, tree, p, index)],
                          parent |-> [k \in 1..Len(children) |->
                                          getParent(iface, tree, children[k])],
                          ownindex |-> [k \in 1..Len(children) |->
                                          getOwnIndex(iface, tree, children[k])]]
            /\ ret' = "view"
            /\ log' = <<>>
            /\ UNCHANGED <<schema, tree, defaultstore, interfaces, changed, validnodes,
                           convertorsfrom, context, objects>>

NextView == SetValueView \/ Traverse

SpecView == InitView /\ [][NextView]_vars

\* The positions above position c.
Ancestors(c) == {SubSeq(c, 1, j) : j \in 0..(Len(c) - 1)}

\* What an interface with showhidden=False showed in the last traversal is
\* visible.
ShowsVisibleOnly ==
    (lastop.op = "traverse" /\ ~interfaces[lastop.iface].showhidden) =>
        /\ \A k \in 1..Len(lastop.children) : NodeAt(tree, lastop.children[k]).visible
        /\ \A index \in -1..MaxIndex :
              lastop.byindex[index].found => NodeAt(tree, lastop.byindex[index].node).visible

\* C27: an interface with showhidden=False shows no node that is not
\* visible, and none of its handlers is called for a node below a node that
\* is not visible, a grouper the interface leaves out included.  (Aside are
\* the grouper whose own change of visibility the call reports by naming its
\* children, and a node whose visibility changes later in the operation.)
C27_HiddenNeverShown ==
    /\ ShowsVisibleOnly
    /\ \A k \in 1..Len(log) :
          (log[k].delivered /\ ~interfaces[log[k].iface].showhidden) =>
              \A n \in 1..Len(log[k].nodes) : \A q \in Ancestors(log[k].nodes[n]) :
                  \/ NodeAt(tree, q).visible
                  \/ q = log[k].node
                  \/ \E j \in (k + 1)..Len(log) :
                        log[j].kind = "afterVisibilityChange" /\ log[j].node = q

\* What the last traversal returned fits together: the count is the number
\* of children, the child at index i is the i-th of the children and there
\* is none at any other index, and each child has the node as its parent
\* and its place among the children as its own index.
ViewIsConsistent ==
    (lastop.op = "traverse" /\ ~isGrouper(interfaces[lastop.iface], NodeAt(tree, lastop.pos))) =>
        /\ lastop.count = Len(lastop.children)
        /\ \A index \in -1..MaxIndex :
              IF 0 <= index /\ index < lastop.count
              THEN /\ lastop.byindex[index].found
                   /\ lastop.byindex[index].node = lastop.children[index + 1]
              ELSE ~lastop.byindex[index].found
        /\ \A k \in 1..Len(lastop.children) :
              /\ lastop.parent[k] = lastop.pos
              /\ lastop.ownindex[k] = k - 1

\* C28: for every interface configuration (showhidden, omitgroupers) and
\* every node p that the interface does not leave out as a grouper,
\* getChildCount(p) is the length of getChildren(p), getChildByIndex(p,i)
\* is the i-th of getChildren(p) for 0 <= i < count and nothing otherwise,
\* every c of getChildren(p) has getParent(c) = p and getOwnIndex(c) its
\* place in getChildren(p); and the calls leave the tree as it is.
C28_ViewConsistent ==
    /\ []ViewIsConsistent
    /\ [][lastop'.op = "traverse" => tree' = tree]_vars

\* An interface that leaves groupers out and hides hidden nodes was asked
\* for the children of the root while one grouper inside another was shown
\* and a node inside a grouper was hidden.
C28_Witness ==
    /\ lastop.op = "traverse"
    /\ lastop.pos = <<>>
    /\ interfaces[lastop.iface].omitgroupers
    /\ ~interfaces[lastop.iface].showhidden
    /\ \E k \in 1..Len(lastop.children) : Len(lastop.children[k]) = 3
    /\ \E q \in Positions(tree) : Len(q) = 2 /\ ~NodeAt(tree, q).visible


\* ------------------------------------------------------------------------
\* Changes in the default store
\* ------------------------------------------------------------------------

\* A schema with a variable "opt" that is shown while "plain" is a, and a
\* container "dep" that is shown while "opt" is a.
SchemaDefault ==
    << Element("root", 0, ""),
       Element("plain", 1, "string"),
       Conditional("opt", 1, "string", CondEq(<<".", "plain">>, "a")),
       Conditional("dep", 1, "", CondEq(<<".", "opt">>, "a")) >>

\* The store with default values for that schema: "plain" is a, "opt" is b.
DefaultsOfSchemaDefault ==
    [NewNode(1, TRUE, "") EXCEPT
        !.children = << WithValue(NewNode(2, FALSE, ""), "a"),
                        WithValue(NewNode(3, FALSE, ""), "b"),
                        NewNode(4, FALSE, "") >>]

\* TypedStoreInterface.onDefaultChange: the change is passed on to onChange
\* when the policy is 1, or is 0 while the node has no value of its own.
ProcessesDefaultChange(iface, t, p) ==
    \/ iface.processDefaultChange = 1
    \/ iface.processDefaultChange = 0 /\ ~hasValue(t, p)

\* A variant of onDefaultChange that tells the interfaces and updates the
\* dependants whether the own node has a value or not.
onDefaultChange_Always(st, defaultnode, feature) ==
    LET ownnode == mapForeignNode(st.tree, defaultstoreOf(st.tree), defaultnode, 1, <<>>) IN
    IF ownnode = None THEN st
    ELSE Then([st EXCEPT !.log = @ \o
                  [i \in 1..Len(interfaces) |->
                      Event("defaultChange", i, ownnode, NodeAt(st.tree, ownnode), feature,
                            FALSE, FALSE,
                            ChangeDelivered(st.tree, i, "afterChange", ownnode))]],
              LAMBDA s1 : updateDependantNodes(s1, ownnode))

\* TypedStore.onDefaultChange, the handler of afterChange of the default
\* store: the node of the default store is mapped to the own node; without
\* one nothing happens.  Each interface is told (onDefaultChange) and calls
\* its afterChange handler as its policy and onChange say; then, when the
\* own node has no value, its dependants are updated.
onDefaultChange(st, defaultnode, feature) ==
    LET ownnode == mapForeignNode(st.tree, defaultstoreOf(st.tree), defaultnode, 1, <<>>) IN
    IF ownnode = None THEN st
    ELSE Then([st EXCEPT !.log = @ \o
                  [i \in 1..Len(interfaces) |->
                      Event("defaultChange", i, ownnode, NodeAt(st.tree, ownnode), feature,
                            FALSE, FALSE,
                            /\ ProcessesDefaultChange(interfaces[i], st.tree, ownnode)
                            /\ ChangeDelivered(st.tree, i, "afterChange", ownnode))]],
              LAMBDA s1 :
         IF ~hasValue(s1.tree, ownnode) THEN updateDependantNodes(s1, ownnode) ELSE s1)

\* An interface for each policy, showing hidden nodes and not.
InterfacesDefault ==
    << TypedStoreInterface(TRUE, FALSE, -1), TypedStoreInterface(TRUE, FALSE, 0),
       TypedStoreInterface(TRUE, FALSE, 1), TypedStoreInterface(FALSE, FALSE, -1),
       TypedStoreInterface(FALSE, FALSE, 0), TypedStoreInterface(FALSE, FALSE, 1) >>

\* A store over an empty document with the default store attached.
InitDefault ==
    /\ schema = Schema(SchemaDefault)
    /\ defaultstore = DefaultsOfSchemaDefault
    /\ interfaces = InterfacesDefault
    /\ tree = setStore
    /\ changed = FALSE
    /\ validnodes = {}
    /\ convertorsfrom = {}
    /\ context = NoContext
    /\ objects = <<>>
    /\ log = <<>>
    /\ lastop = [op |-> "setStore", pos |-> <<>>, value |-> None, name |-> "",
                 position |-> 0, id |-> ""]
    /\ ret = "None"

\* node.setValue(v) on a node of the default store.  When the value
\* changes, the default store's afterChange reaches the store's
\* onDefaultChange, which runs with the default store as it is by then.
SetDefaultValue ==
    \E dp \in {q \in Positions(defaultstore) : canHaveValue(NodeAt(defaultstore, q).el)},
       v \in Values :
        /\ \E r \in {setValue([tree |-> defaultstore, changed |-> FALSE, log |-> <<>>,
                               err |-> FALSE], dp, v, {})} :
               /\ r.ret = "True"
               /\ defaultstore' = r.st.tree
               /\ \E s \in {onDefaultChange(
                                [Begin EXCEPT !.tree = WithDefaultStore(tree, r.st.tree)],
                                dp, "value")} :
                      /\ tree' = WithoutDefaultStore(s.tree)
                      /\ log' = s.log
                      /\ changed' = s.changed
                      /\ ret' = IF s.err THEN "raised" ELSE "True"
        /\ UNCHANGED <<schema, interfaces, validnodes, convertorsfrom, context, objects>>
        /\ lastop' = [op |-> "setDefaultValue", pos |-> dp, value |-> v, before |-> tree]

NextDefault == SetValueView \/ SetDefaultValue

SpecDefault == InitDefault /\ [][NextDefault]_vars

\* The own node that corresponds to the node of the default store changed
\* last (None when there is none).
OwnNode == mapForeignNode(lastop.before, defaultstore, lastop.pos, 1, <<>>)

\* Interface i called its afterChange handler for the own node in the last
\* operation.
ReportedDefaultChange(i) ==
    \E k \in 1..Len(log) :
        /\ log[k].kind = "defaultChange" /\ log[k].iface = i
        /\ log[k].node = OwnNode /\ log[k].delivered

\* The visibility of the dependants after a change in the default store:
\* with a value of its own in the own node nothing of the tree changed and
\* no visibility event was sent; without one every conditional node is
\* shown exactly when its condition holds with the new default.
DependantsFollowDefault ==
    (lastop.op = "setDefaultValue" /\ OwnNode # None) =>
        IF hasValue(lastop.before, OwnNode)
        THEN /\ tree = lastop.before
             /\ \A k \in 1..Len(log) : log[k].kind = "defaultChange"
        ELSE /\ \A q \in Positions(tree) :
                   Sch[NodeAt(tree, q).el].cond.type # "none" =>
                       NodeAt(tree, q).visible
                           = checkCondition(tree, Sch[NodeAt(tree, q).el].cond, q)

\* C29 as stated: after a change of a value in the default store an
\* interface reports a change of the own node never with policy -1, always
\* with policy 1, and with policy 0 exactly when the own node has no value
\* of its own; the dependants' visibility is recomputed exactly when the own
\* node has no value of its own.
C29_DefaultChangePolicy ==
    /\ (lastop.op = "setDefaultValue" /\ OwnNode # None) =>
          \A i \in 1..Len(interfaces) :
              ReportedDefaultChange(i) <=>
                  \/ interfaces[i].processDefaultChange = 1
                  \/ /\ interfaces[i].processDefaultChange = 0
                     /\ ~hasValue(lastop.before, OwnNode)
    /\ DependantsFollowDefault

\* C29: the same for an interface that shows hidden nodes, and for an own
\* node that is not hidden; an interface with showhidden=False reports
\* nothing for an own node that is hidden, whatever its policy.
C29_DefaultChangePolicyShown ==
    /\ (lastop.op = "setDefaultValue" /\ OwnNode # None) =>
          \A i \in 1..Len(interfaces) :
              ReportedDefaultChange(i) <=>
                  /\ \/ interfaces[i].processDefaultChange = 1
                     \/ /\ interfaces[i].processDefaultChange = 0
                        /\ ~hasValue(lastop.before, OwnNode)
                  /\ interfaces[i].showhidden \/ ~isHidden(lastop.before, OwnNode)
    /\ DependantsFollowDefault

\* The default of "opt" changed while the own "opt" was hidden and had no
\* value, and "dep" changed its visibility with it.
C29_Witness ==
    /\ lastop.op = "setDefaultValue"
    /\ OwnNode # None
    /\ isHidden(lastop.before, OwnNode)
    /\ ~hasValue(lastop.before, OwnNode)
    /\ tree # lastop.before


\* ------------------------------------------------------------------------
\* References to containers and default stores
\* ------------------------------------------------------------------------

\* The containers and the stores with default values there are beside the
\* store; each is a util.referencedobject.
Containers == {"c1", "c2"}
DefaultStores == {"d1", "d2"}

\* The largest reference count an object is taken to.
MaxRefs == 3

\* The values of the stores with default values (for schema 3): in d1
\* "plain" is a, in d2 it is b.
DefaultTree(d) ==
    [NewNode(1, TRUE, "") EXCEPT
        !.children = << WithValue(NewNode(2, FALSE, ""), IF d = "d1" THEN "a" ELSE "b"),
                        NewNode(4, FALSE, "") >>]

\* The name of the attached default store (None without one).
DefaultName ==
    IF defaultstore = NoStore THEN None
    ELSE CHOOSE d \in DefaultStores : DefaultTree(d) = defaultstore

\* referencedobject.addref / release
addref(objs, o) == [objs EXCEPT ![o].refcount = @ + 1]
release(objs, o) == [objs EXCEPT ![o].refcount = @ - 1]

\* A variant of setStore's "self.context = {}" that releases the container
\* first.
resetContext_Releasing(objs) ==
    IF context.container # None THEN release(objs, context.container) ELSE objs

\* setStore's "self.context = {}": the dictionary is replaced, nothing in
\* it is released.
resetContext(objs) == objs

\* A store of schema 3 over an empty document, without container and
\* default store; each object beside it has the one reference of its owner
\* and no interface.
InitRefs ==
    /\ schema = Schema(SchemaDef)
    /\ defaultstore = NoStore
    /\ interfaces = << Interface(TRUE), Interface(FALSE) >>
    /\ tree = setStore
    /\ changed = FALSE
    /\ validnodes = {}
    /\ convertorsfrom = {}
    /\ context = NoContext
    /\ objects = [o \in Containers \cup DefaultStores |-> [refcount |-> 1, interfaces |-> 0]]
    /\ log = <<>>
    /\ lastop = [op |-> "init", object |-> None]
    /\ ret = "None"

\* The store has not been unlinked.
Linked == lastop.op # "unlink"

\* store.setContainer(container): the container in the context (if any) is
\* released, the new one (if any) gets a reference and is put in the
\* context.
SetContainer ==
    \E container \in Containers \cup {None} :
        /\ Linked
        /\ container # None => objects[container].refcount < MaxRefs
        /\ \E o1 \in {IF context.container # None THEN release(objects, context.container)
                                                 ELSE objects} :
               objects' = IF container # None THEN addref(o1, container) ELSE o1
        /\ context' = [context EXCEPT !.container = container]
        /\ log' = <<>>
        /\ lastop' = [op |-> "setContainer", object |-> container]
        /\ ret' = "None"
        /\ UNCHANGED <<schema, tree, defaultstore, interfaces, changed, validnodes,
                       convertorsfrom>>

\* store.setDefaultStore(store): the old default store (if any) loses the
\* store's interface and reference, the new one gets a reference and an
\* interface connected to afterChange; then the visibility of every node is
\* updated, with the new defaults.
SetDefaultStore ==
    \E d \in DefaultStores :
        /\ Linked
        /\ objects[d].refcount < MaxRefs
        /\ \E o1 \in {IF defaultstore # NoStore
                      THEN [release(objects, DefaultName) EXCEPT ![DefaultName].interfaces = @ - 1]
                      ELSE objects} :
               objects' = [addref(o1, d) EXCEPT ![d].interfaces = @ + 1]
        /\ defaultstore' = DefaultTree(d)
        /\ UNCHANGED <<schema, interfaces, validnodes, convertorsfrom, context, changed>>
        /\ \E s \in {updateVisibilityEach(
                          [Begin EXCEPT !.tree = WithDefaultStore(tree, DefaultTree(d))],
                          getDescendants(tree, <<>>), TRUE)} :
               /\ tree' = WithoutDefaultStore(s.tree)
               /\ log' = s.log
        /\ lastop' = [op |-> "setDefaultStore", object |-> d]
        /\ ret' = "None"

\* store.setStore(None): the tree is built anew over an empty document;
\* the context is replaced by an empty one, and then setContainer(None)
\* finds no container in it.
SetStoreNone ==
    /\ Linked
    /\ objects' = resetContext(objects)
    /\ context' = NoContext
    /\ tree' = setStore
    /\ changed' = FALSE
    /\ log' = <<>>
    /\ lastop' = [op |-> "setStore", object |-> None]
    /\ ret' = "None"
    /\ UNCHANGED <<schema, defaultstore, interfaces, validnodes, convertorsfrom>>

\* store.unlink(): the tree is destroyed, the container in the context and
\* the default store are released, the default store loses the store's
\* interface, and the store's own interfaces are unlinked.
Unlink ==
    /\ Linked
    /\ \E o1 \in {IF context.container # None THEN release(objects, context.container)
                                             ELSE objects} :
           objects' = IF defaultstore # NoStore
                      THEN [release(o1, DefaultName) EXCEPT ![DefaultName].interfaces = @ - 1]
                      ELSE o1
    /\ context' = NoContext
    /\ defaultstore' = NoStore
    /\ tree' = NoStore
    /\ interfaces' = <<>>
    /\ log' = <<>>
    /\ lastop' = [op |-> "unlink", object |-> None]
    /\ ret' = "None"
    /\ UNCHANGED <<schema, changed, validnodes, convertorsfrom>>

NextRefs == SetContainer \/ SetDefaultStore \/ SetStoreNone \/ Unlink

SpecRefs == InitRefs /\ [][NextRefs]_vars

\* C30: the store holds one reference on the container in its context and
\* one on its default store, with one interface connected to it, and none
\* on any other object: what it took on an object that was replaced is
\* released; after setStore it holds no reference on a container; after
\* unlink every count is what it was before the store took anything, and no
\* interface of the store is connected to a default store.
C30_ReferencesReleased ==
    /\ \A c \in Containers :
          objects[c].refcount = 1 + (IF context.container = c THEN 1 ELSE 0)
    /\ \A d \in DefaultStores :
          /\ objects[d].refcount = 1 + (IF DefaultName = d THEN 1 ELSE 0)
          /\ objects[d].interfaces = (IF DefaultName = d THEN 1 ELSE 0)
    /\ lastop.op \in {"setStore", "unlink"} =>
          \A c \in Containers : objects[c].refcount = 1
    /\ lastop.op = "unlink" =>
          \A d \in DefaultStores : objects[d].refcount = 1 /\ objects[d].interfaces = 0

\* ------------------------------------------------------------------------
\* Schema: the dependency entries of a loaded schema
\* ------------------------------------------------------------------------

\* The elements of the schemas whose dependencies are looked at: variables
\* at three depths, and containers beside and around them.  "sel" has a
\* unit that follows "mode".
SkeletonDeps ==
    << Element("root", 0, ""),
       Element("mode", 1, "string"),
       Element("grp", 1, ""),
       [Element("sel", 3, "string") EXCEPT !.unit = <<"..", "mode">>],
       Element("leaf", 3, ""),
       Element("sub", 3, ""),
       Element("deep", 6, "string"),
       Element("tail", 1, "") >>

\* The elements of the skeleton that get a condition, and the variables a
\* condition refers to.
OwnersDeps == {3, 5, 6, 8}
TargetsDeps == {2, 4, 7}

\* The ways to write, in a condition of element o, the path of variable v:
\* from the document element, from the parent of o, and the latter with a
\* leading dot.
PathForms(S, o, v) ==
    LET parentpath == getPathFromNode(S, S[o].parent)
        targetpath == getPathFromNode(S, v)
        c == CommonPrefix(parentpath, targetpath)
        rel == Ups(Len(parentpath) - c) \o SubSeq(targetpath, c + 1, Len(targetpath))
    IN  {<<"">> \o targetpath, rel, <<".">> \o rel}

\* The conditions made of a comparison with the variable at p1 and one
\* with the variable at p2: alone, nested one and two levels deep, and
\* with the attribute source on a comparison or on the condition around it.
ConditionForms(p1, p2) ==
    { CondEq(p1, "a"),
      CondAnd(<< CondEq(p1, "a"), CondNe(p2, "b") >>),
      CondOr(<< CondAnd(<< CondEq(p1, "a") >>), CondEq(p2, "a") >>),
      CondSource(CondEq(p1, "a"), "other"),
      CondAnd(<< CondEq(p1, "a"), CondSource(CondNe(p2, "b"), "other") >>),
      CondOr(<< CondSource(CondAnd(<< CondEq(p1, "a") >>), "other"), CondEq(p2, "a") >> ) }

\* The schema documents: the skeleton with one of the conditions on one of
\* its elements.
SchemasDeps ==
    UNION { { [SkeletonDeps EXCEPT ![o].cond = c] :
                c \in UNION { ConditionForms(p1, p2) :
                                p1 \in PathForms(SkeletonDeps, o, v1),
                                p2 \in PathForms(SkeletonDeps, o, v2) } } :
            o \in OwnersDeps, v1 \in TargetsDeps, v2 \in TargetsDeps }

\* Schema.__init__ with one of the schema documents; no store is made yet.
InitDeps ==
    /\ schema \in {Schema(S) : S \in SchemasDeps}
    /\ defaultstore = NoStore
    /\ interfaces = <<>>
    /\ tree = NoStore
    /\ changed = FALSE
    /\ validnodes = {}
    /\ convertorsfrom = {}
    /\ context = NoContext
    /\ objects = <<>>
    /\ log = <<>>
    /\ lastop = [op |-> "load", target |-> 0, index |-> 0, path |-> <<>>, node |-> 0]
    /\ ret = "None"

\* The element a <dependentvariable> entry below element `target` names:
\* Schema.getNodeFromPath from the document element for an absolute path,
\* from the parent of `target` for a relative one.
resolveDependency(S, target, path) ==
    getNodeFromPath(S, path,
                    IF path # <<>> /\ Head(path) = "" THEN 1 ELSE S[target].parent)

\* Looking up the element one of the <dependentvariable> entries names.
ResolveDependency ==
    \E target \in 1..Len(Sch) :
      \E index \in 1..Len(schema.dependentvariables[target]) :
        /\ lastop' = [op |-> "getNodeFromPath", target |-> target, index |-> index,
                      path |-> schema.dependentvariables[target][index].path,
                      node |-> resolveDependency(Sch, target,
                                  schema.dependentvariables[target][index].path)]
        /\ ret' = "node"
        /\ UNCHANGED <<schema, tree, defaultstore, interfaces, changed, validnodes,
                       convertorsfrom, context, objects, log>>

NextDeps == ResolveDependency

SpecDeps == InitDeps /\ [][NextDeps]_vars

\* The <condition> elements in and below a condition, in document order,
\* each with whether it or a condition around it has the attribute source.
RECURSIVE ConditionElements(_, _)
ConditionElements(cond, foreign) ==
    IF cond.type = "none" THEN <<>>
    ELSE << [cond |-> cond, foreign |-> foreign \/ cond.source # ""] >>
         \o Flatten([i \in 1..Len(cond.kids) |->
                ConditionElements(cond.kids[i], foreign \/ cond.source # "")])

\* The number of <dependentvariable> entries of kind visibility below
\* element T whose path leads to element O.
ReverseEdges(T, O) ==
    Cardinality({k \in 1..Len(schema.dependentvariables[T]) :
        /\ schema.dependentvariables[T][k].type = "visibility"
        /\ resolveDependency(Sch, T, schema.dependentvariables[T][k].path) = O})

\* The number of <condition> elements of element O with a variable that
\* is element T; with `own` only those about this store.
ConditionsOn(T, O, own) ==
    LET cs == ConditionElements(Sch[O].cond, FALSE) IN
    Cardinality({k \in 1..Len(cs) :
        /\ cs[k].cond.variable # <<>>
        /\ own => ~cs[k].foreign
        /\ TargetOf(Sch, O, cs[k].cond.variable) = T})

\* Every <dependentvariable> entry of kind visibility names an element.
EdgesResolve ==
    \A T \in 1..Len(Sch) : \A k \in 1..Len(schema.dependentvariables[T]) :
        schema.dependentvariables[T][k].type = "visibility" =>
            resolveDependency(Sch, T, schema.dependentvariables[T][k].path) # 0

\* C31: in a loaded schema every condition element that names a variable,
\* at any depth, has exactly one reverse edge: the element its variable
\* refers to has as many visibility entries leading to the owner of the
\* condition (from the target's parent, or from the root for an absolute
\* path) as the owner has conditions on that variable.
C31_OneReverseEdgePerCondition ==
    /\ EdgesResolve
    /\ \A T \in 1..Len(Sch), O \in 1..Len(Sch) :
          ReverseEdges(T, O) = ConditionsOn(T, O, FALSE)

\* C31 as the code has it: the same for every condition element that names
\* a variable and neither has the attribute source nor lies in a condition
\* that has it.
C31_OneReverseEdgePerOwnCondition ==
    /\ EdgesResolve
    /\ \A T \in 1..Len(Sch), O \in 1..Len(Sch) :
          ReverseEdges(T, O) = ConditionsOn(T, O, TRUE)

\* A schema with a condition two levels deep whose reverse edge goes up
\* from the target's parent, looked up and found to lead to the owner.
C31_Witness ==
    /\ lastop.op = "getNodeFromPath"
    /\ lastop.path # <<>> /\ Head(lastop.path) = ".."
    /\ lastop.node # 0
    /\ Sch[lastop.node].cond.type = "or"
    /\ \E i \in 1..Len(Sch[lastop.node].cond.kids) :
          /\ Sch[lastop.node].cond.kids[i].type = "and"
          /\ Sch[lastop.node].cond.kids[i].source = ""
          /\ TargetOf(Sch, lastop.node, Sch[lastop.node].cond.kids[i].kids[1].variable)
                = lastop.target

\* ------------------------------------------------------------------------
\* Visibility in every state
\* ------------------------------------------------------------------------

\* C32: between operations every node that has a condition has the
\* visible flag its condition evaluates to on the current-or-default
\* values, whatever setValue, clearValue, addChild and removeChild calls
\* came before.
C32_VisibleIsCondition ==
    \A X \in Positions(tree) : VisibleAsCondition(tree, X)

\* ------------------------------------------------------------------------
\* The Node tree and the value document
\* ------------------------------------------------------------------------

\* A container with a variable, a variable and a repeatable variable.
SchemaDoc ==
    << Element("root", 0, ""),
       Element("grp", 1, ""),
       Element("x", 2, "string"),
       Element("mode", 1, "string"),
       Repeatable("many", 1, "string") >>

\* The value elements a document may hold for schema element e when it
\* keeps to the schema: below it, for each child element, no more entries
\* than maxOccurs allows (MaxEntries when that is unbounded).
RECURSIVE DocumentEntries(_)
DocumentEntries(e) ==
    LET ch == ElemChildren(Sch, e)
        Kids[i \in 0..Len(ch)] ==
            IF i = 0 THEN {<<>>}
            ELSE {a \o b : a \in Kids[i - 1],
                           b \in SeqsUpTo(DocumentEntries(ch[i]),
                                          AtMost(MaxEntries, Sch[ch[i]].maxOccurs))}
    IN  {[name |-> Sch[e].name, id |-> "", text |-> t, children |-> k] :
            t \in (IF canHaveValue(e) THEN {"a"} ELSE {None}), k \in Kids[Len(ch)]}

\* TypedStore.__init__ for the schema SchemaDoc over an empty value
\* document.
InitDoc ==
    /\ schema = Schema(SchemaDoc)
    /\ defaultstore = NoStore
    /\ interfaces = << Interface(TRUE), Interface(FALSE) >>
    /\ tree = setStore
    /\ changed = FALSE
    /\ validnodes = {}
    /\ convertorsfrom = {}
    /\ context = NoContext
    /\ objects = <<>>
    /\ log = <<>>
    /\ lastop = [op |-> "setStore", pos |-> <<>>, value |-> None, name |-> "",
                 position |-> 0, id |-> "", valueroot |-> NoEntry]
    /\ ret = "None"

\* store.setStore(valueroot) with a value document that keeps to the schema.
SetStoreDoc ==
    \E valueroot \in DocumentEntries(1) :
        /\ \E st \in {setStoreFrom(valueroot)} :
               /\ tree' = st.tree
               /\ changed' = st.changed
               /\ log' = st.log
        /\ ret' = "None"
        /\ lastop' = [lastop EXCEPT !.op = "setStore", !.pos = <<>>, !.name = "",
                                    !.value = None, !.valueroot = valueroot]
        /\ UNCHANGED <<schema, defaultstore, interfaces, validnodes, convertorsfrom, context, objects>>

\* node.setValue("a") on a node that can have a value, no interface
\* refusing.
SetValueDoc ==
    \E p \in Positions(tree) :
        /\ canHaveValue(NodeAt(tree, p).el)
        /\ \E r \in {setValue(Begin, p, "a", {})} : Finish(r) /\ ret' = r.ret
        /\ lastop' = [lastop EXCEPT !.op = "setValue", !.pos = p, !.name = "",
                                    !.value = "a", !.valueroot = NoEntry]

\* node.clearValue() on any node, no interface refusing.
ClearValueDoc ==
    \E p \in Positions(tree) :
        /\ \E r \in {clearValue(Begin, p, {})} : Finish(r) /\ ret' = r.ret
        /\ lastop' = [lastop EXCEPT !.op = "clearValue", !.pos = p, !.name = "",
                                    !.value = None, !.valueroot = NoEntry]

\* node.addChild(name) with the name of any child element of the node's
\* element, while the parent has fewer than MaxClones children of that name
\* and the document no value element without Node for it.
AddChildDoc ==
    \E pp \in Positions(tree) :
      \E c \in {c \in 1..Len(Sch) : Sch[c].parent = NodeAt(tree, pp).el} :
            /\ Cardinality(Named(NodeAt(tree, pp), Sch[c].name)) < MaxClones
            /\ c \notin straysOf(tree)
            /\ \E r \in {addChild(Begin, pp, Sch[c].name, -1, "")} : Finish(r) /\ ret' = r.ret
            /\ lastop' = [lastop EXCEPT !.op = "addChild", !.pos = pp, !.name = Sch[c].name,
                                        !.value = None, !.valueroot = NoEntry]

NextDoc == SetStoreDoc \/ SetValueDoc \/ ClearValueDoc \/ AddChildDoc

SpecDoc == InitDoc /\ [][NextDoc]_vars

\* C33: the Node tree and the value document agree in every state: the
\* value root of each live node hangs below the value root of its parent
\* node, up to the document element, and the document holds no value
\* element that no live node has; so after construction from a value
\* document, after clearValue on a container whose children hold values,
\* and after an addChild that failed.
C33_TreeMatchesDocument ==
    /\ \A p \in Positions(tree) : NodeAt(tree, p).vr # "none" => InDocument(tree, p)
    /\ straysOf(tree) = {}

\* ------------------------------------------------------------------------
\* Clones and maxOccurs
\* ------------------------------------------------------------------------

\* Most same-named siblings below one parent in the runs about maxOccurs.
MaxSiblings == 3

\* A variable that may occur at most twice (minOccurs=0, maxOccurs=2) and
\* one that may occur any number of times.
SchemaMax ==
    << Element("root", 0, ""),
       [Element("pair", 1, "string") EXCEPT !.minOccurs = 0, !.maxOccurs = 2],
       Repeatable("many", 1, "string") >>

\* Node.getChildById(childname, id, create=True): the first child of that
\* name with that secondary id; when there is none, addChild(childname,
\* id=id).
getChildByIdCreate(st, pp, childname, id) ==
    IF getChildById(NodeAt(st.tree, pp), childname, id) # 0 THEN Result(st, "node")
    ELSE addChild(st, pp, childname, -1, id)

\* Node.getChildByNumber(childname, index, create=True): the index-th child
\* of that name; when there are fewer, addChild(childname) as often as it
\* takes to have one (todo is the number of calls still to make).
RECURSIVE addChildren(_, _, _, _)
addChildren(st, pp, childname, todo) ==
    IF todo = 0 THEN Result(st, "node")
    ELSE Then(addChild(st, pp, childname, -1, ""), LAMBDA r :
         IF r.ret = "raised" THEN r ELSE addChildren(r.st, pp, childname, todo - 1))

getChildByNumberCreate(st, pp, childname, index) ==
    LET n == NodeAt(st.tree, pp)
        curindex == Cardinality(Named(n, childname))
    IN  IF getChildByNumber(n, childname, index) # 0 THEN Result(st, "node")
        ELSE addChildren(st, pp, childname, index - curindex + 1)

\* TypedStore.__init__ for the schema SchemaMax over an empty value
\* document.
InitMax ==
    /\ schema = Schema(SchemaMax)
    /\ defaultstore = NoStore
    /\ interfaces = << Interface(TRUE), Interface(FALSE) >>
    /\ tree = setStore
    /\ changed = FALSE
    /\ validnodes = {}
    /\ convertorsfrom = {}
    /\ context = NoContext
    /\ objects = <<>>
    /\ log = <<>>
    /\ lastop = [op |-> "setStore", pos |-> <<>>, value |-> None, name |-> "",
                 position |-> 0, id |-> ""]
    /\ ret = "None"

\* node.addChild(name, position, id) for a clone, while the parent has
\* fewer than MaxSiblings children of that name.
AddChildMax ==
    \E name \in CloneNames(1), id \in SecIds \cup {""} :
        \E position \in -1..Cardinality(Named(tree, name)) :
            /\ Cardinality(Named(tree, name)) < MaxSiblings
            /\ \E r \in {addChild(Begin, <<>>, name, position, id)} :
                   Finish(r) /\ ret' = r.ret
            /\ lastop' = [op |-> "addChild", pos |-> <<>>, value |-> None, name |-> name,
                          position |-> position, id |-> id]

\* node.getChildById(name, id, create=True) for a clone, while the parent
\* has fewer than MaxSiblings children of that name.
GetChildById ==
    \E name \in CloneNames(1), id \in SecIds \cup {""} :
        /\ Cardinality(Named(tree, name)) < MaxSiblings
        /\ \E r \in {getChildByIdCreate(Begin, <<>>, name, id)} :
               Finish(r) /\ ret' = r.ret
        /\ lastop' = [op |-> "getChildById", pos |-> <<>>, value |-> None, name |-> name,
                      position |-> 0, id |-> id]

\* node.getChildByNumber(name, index, create=True) for a clone and an index
\* below MaxSiblings.
GetChildByNumber ==
    \E name \in CloneNames(1), index \in 0..(MaxSiblings - 1) :
        /\ \E r \in {getChildByNumberCreate(Begin, <<>>, name, index)} :
               Finish(r) /\ ret' = r.ret
        /\ lastop' = [op |-> "getChildByNumber", pos |-> <<>>, value |-> None, name |-> name,
                      position |-> index, id |-> ""]

\* node.removeChild(name, index) for a clone.
RemoveChildMax ==
    \E name \in CloneNames(1), index \in 0..(MaxSiblings - 1) :
        /\ \E r \in {removeChild(Begin, <<>>, name, index)} :
               Finish(r) /\ ret' = r.ret
        /\ lastop' = [op |-> "removeChild", pos |-> <<>>, value |-> None, name |-> name,
                      position |-> index, id |-> ""]

NextMax == AddChildMax \/ GetChildById \/ GetChildByNumber \/ RemoveChildMax

SpecMax == InitMax /\ [][NextMax]_vars

\* No two siblings of one name have the same secondary id, unless it is
\* empty.
UniqueSecondaryIds ==
    \A p \in Positions(tree) :
        LET n == NodeAt(tree, p) IN
        \A i, j \in 1..Len(n.children) :
            (i # j /\ n.children[i].el = n.children[j].el /\ n.children[i].id # "")
                => n.children[i].id # n.children[j].id

\* C34: whatever addChild, getChildById(create=True),
\* getChildByNumber(create=True) and removeChild calls were made, a parent
\* has no more Nodes of a repeatable element than the element's maxOccurs,
\* and no two same-named siblings share a secondary id that is not empty.
C34_WithinMaxOccurs ==
    /\ \A p \in Positions(tree) :
          \A c \in {c \in 1..Len(Sch) : Sch[c].parent = NodeAt(tree, p).el} :
              Sch[c].maxOccurs # -1 =>
                  Cardinality({i \in 1..Len(NodeAt(tree, p).children) :
                                  NodeAt(tree, p).children[i].el = c}) <= Sch[c].maxOccurs
    /\ UniqueSecondaryIds

\* ------------------------------------------------------------------------
\* Before and after calls of a change of visibility
\* ------------------------------------------------------------------------

\* A handler of interface `iface` for calls of `kind` (before or after a
\* change of visibility) that answers a call for the node at `on` with
\* node.setValue(value) on the node at `node`.
VisibilityHandler(iface, kind, on, node, value) ==
    [iface |-> iface, kind |-> kind, on |-> on, node |-> node, value |-> value]

\* TypedStoreInterface.upcomingvizchange of interface i after the calls in
\* log q: the node of the last beforeVisibilityChange call to it, when no
\* afterVisibilityChange call to it came after that one.
upcomingvizchange(q, i) ==
    LET js == {j \in 1..Len(q) : q[j].iface = i /\ q[j].kind \in VisibilityKinds}
        last == CHOOSE j \in js : \A l \in js : l <= j
    IN  IF js # {} /\ q[last].kind = "beforeVisibilityChange"
        THEN [set |-> TRUE, node |-> q[last].node]
        ELSE [set |-> FALSE, node |-> <<>>]

\* TypedStore.beforeVisibilityChange / afterVisibilityChange with handler h
\* connected, from interface i on.  Each interface is called in turn:
\* afterVisibilityChange asserts that the node is the interface's
\* upcomingvizchange (the exception leaves the store's loop); the call of
\* h's handler runs h's setValue, with everything that does, before the
\* next interface is called.
RECURSIVE NotifyVisibilityHandled(_, _, _, _, _, _, _, _)
NotifyVisibilityHandled(st, kind, p, n, shownew, showhide, h, i) ==
    IF i > Len(interfaces) \/ st.err THEN st
    ELSE LET delivered == VisibilityDelivered(st.tree, i, kind, p, n, showhide)
             expected == kind = "afterVisibilityChange" =>
                             upcomingvizchange(st.log, i) = [set |-> TRUE, node |-> p]
             s1 == [st EXCEPT !.log = Append(@,
                       [Event(kind, i, p, n, "", shownew, showhide, delivered /\ expected)
                        EXCEPT !.nodes = IF isGrouper(interfaces[i], n)
                                         THEN getChildrenOf(interfaces[i], n, p)
                                         ELSE << p >>])]
         IN  IF ~expected THEN [s1 EXCEPT !.err = TRUE]
             ELSE IF delivered /\ i = h.iface /\ kind = h.kind /\ p = h.on
             THEN Then(setValue(s1, h.node, h.value, {}).st, LAMBDA s2 :
                  NotifyVisibilityHandled(
                      [s2 EXCEPT !.log = Append(@, HandlerReturns(s2.tree, i, p))],
                      kind, p, n, shownew, showhide, h, i + 1))
             ELSE NotifyVisibilityHandled(s1, kind, p, n, shownew, showhide, h, i + 1)

\* Node.updateVisibility() with handler h connected.
updateVisibilityHandled(st, p, h) ==
    LET n == NodeAt(st.tree, p)
        cond == Sch[n.el].cond
    IN  IF cond.type = "none" THEN st
        ELSE Then(checkCondition(st.tree, cond, p), LAMBDA shownew :
             IF shownew = n.visible THEN st
             ELSE Then(NotifyVisibilityHandled(st, "beforeVisibilityChange", p, n, shownew,
                                               TRUE, h, 1),
                       LAMBDA s1 :
                  IF s1.err THEN s1
                  ELSE Then([NodeAt(s1.tree, p) EXCEPT !.visible = shownew], LAMBDA n2 :
                       NotifyVisibilityHandled([s1 EXCEPT !.tree = Replace(@, p, n2)],
                                               "afterVisibilityChange", p, n2, shownew,
                                               TRUE, h, 1))))

\* The loop 'for varnode in depnodes: varnode.updateVisibility()' of
\* updateDependantNodes with handler h connected; an exception ends it.
RECURSIVE updateVisibilityEachHandled(_, _, _)
updateVisibilityEachHandled(st, ps, h) ==
    IF ps = <<>> \/ st.err THEN st
    ELSE Then(updateVisibilityHandled(st, Head(ps), h),
              LAMBDA s : updateVisibilityEachHandled(s, Tail(ps), h))

\* Node.setValue, accepted by every interface, with handler h connected.
setValueVisibilityHandled(st, p, value, h) ==
    IF getValue(st.tree, p) = value THEN Result(st, "False")
    ELSE Then(onBeforeChange(st, p, value, {}, 1), LAMBDA b :
         Then(createValueNode(b.st, p, FALSE), LAMBDA s1 :
         IF s1.err THEN Result(s1, "raised")
         ELSE LET s2 == [s1 EXCEPT !.tree =
                            Replace(@, p, [NodeAt(s1.tree, p) EXCEPT !.val = value]),
                            !.changed = TRUE,
                            !.log = @ \o
                               [i \in 1..Len(interfaces) |->
                                   Event("afterChange", i, p,
                                         [NodeAt(s1.tree, p) EXCEPT !.val = value], "value",
                                         FALSE, FALSE,
                                         ChangeDelivered(s1.tree, i, "afterChange", p))]]
                  deps == schema.dependentvariables[NodeAt(s1.tree, p).el]
              IN  Then(CollectDependants(s2, p, deps, 1, <<>>), LAMBDA c :
                  Then(updateVisibilityEachHandled(c.st, c.depnodes, h), LAMBDA s3 :
                       Result(s3, "True")))))

\* Two variables, each with a container that is shown while it is "a".
SchemaPairs ==
    << Element("root", 0, ""),
       Element("mode", 1, "string"),
       Conditional("x", 1, "", CondEq(<<".", "mode">>, "a")),
       Element("m2", 1, "string"),
       Conditional("y", 1, "", CondEq(<<".", "m2">>, "a")) >>

\* A store of the schema SchemaPairs over an empty document with two
\* interfaces.
InitVisibilityHandled ==
    /\ schema = Schema(SchemaPairs)
    /\ defaultstore = NoStore
    /\ interfaces = << Interface(TRUE), Interface(FALSE) >>
    /\ tree = setStore
    /\ changed = FALSE
    /\ validnodes = {}
    /\ convertorsfrom = {}
    /\ context = NoContext
    /\ objects = <<>>
    /\ log = <<>>
    /\ lastop = [op |-> "setStore", pos |-> <<>>, value |-> None,
                 handler |-> VisibilityHandler(0, "", <<>>, <<>>, None)]
    /\ ret = "None"

\* node.setValue(v) while one of the interfaces has a handler for the
\* before or the after event that answers the change of visibility of one
\* node by setting a variable that node does not depend on.
SetValueVisibilityHandled ==
    \E p \in ValuePositions, v \in Values, i \in 1..Len(interfaces), kind \in VisibilityKinds :
      \E on \in Positions(tree), node \in ValuePositions, hv \in Values :
        /\ ConditionOf(tree, on).type # "none"
        /\ ~References(tree, on, node)
        /\ \E r \in {setValueVisibilityHandled(Begin, p, v,
                                                VisibilityHandler(i, kind, on, node, hv))} :
               Finish(r) /\ ret' = r.ret
        /\ lastop' = [op |-> "setValue", pos |-> p, value |-> v,
                      handler |-> VisibilityHandler(i, kind, on, node, hv)]

NextVisibilityHandled == SetValueVisibilityHandled

SpecVisibilityHandled == InitVisibilityHandled /\ [][NextVisibilityHandled]_vars

\* The last call before call k of the log that told the interface of call k
\* of a change of visibility (0: none).
LastVisibilityCall(k) ==
    LET js == {j \in 1..(k - 1) : log[j].iface = log[k].iface /\ log[j].kind \in VisibilityKinds}
    IN  IF js = {} THEN 0 ELSE CHOOSE j \in js : \A l \in js : l <= j

\* Every afterVisibilityChange call to an interface names the node of the
\* last beforeVisibilityChange call to that interface, with no other
\* afterVisibilityChange call to it in between.
AfterNamesBefore ==
    \A k \in 1..Len(log) :
        log[k].kind = "afterVisibilityChange" =>
            /\ LastVisibilityCall(k) # 0
            /\ log[LastVisibilityCall(k)].kind = "beforeVisibilityChange"
            /\ log[LastVisibilityCall(k)].node = log[k].node

\* The handler of an interface gets the after event of a change exactly
\* when it got the before event of that change, with the same nodes.
HandlerGetsBoth ==
    \A k \in 1..Len(log) :
        (log[k].kind = "afterVisibilityChange" /\ LastVisibilityCall(k) # 0
            /\ log[LastVisibilityCall(k)].kind = "beforeVisibilityChange"
            /\ log[LastVisibilityCall(k)].node = log[k].node) =>
           /\ log[LastVisibilityCall(k)].delivered = log[k].delivered
           /\ log[k].delivered => log[LastVisibilityCall(k)].nodes = log[k].nodes

\* C35: for every interface each afterVisibilityChange call names the node
\* of the most recent beforeVisibilityChange call to that interface, so
\* that the assertion in afterVisibilityChange holds, also when a handler
\* changes the store from inside a callback; and a handler gets the after
\* event of a change exactly when it got the before event, with the same
\* nodes.
C35_AfterFollowsBefore ==
    /\ AfterNamesBefore
    /\ HandlerGetsBoth
    /\ lastop.op = "setValue" => ret # "raised"

\* ------------------------------------------------------------------------
\* Elements with hidden="True"
\* ------------------------------------------------------------------------

\* Two variables; a container with hidden="True" and a condition; a
\* container with hidden="True" and no condition, with a conditional
\* container in it; a conditional container without the attribute.
SchemaHidden ==
    << Element("root", 0, ""),
       Element("mode", 1, "string"),
       Element("sel", 1, "string"),
       [Conditional("secret", 1, "", CondEq(<<".", "mode">>, "a")) EXCEPT !.hidden = TRUE],
       [Element("hid", 1, "") EXCEPT !.hidden = TRUE],
       Conditional("under", 5, "", CondEq(<<"", "sel">>, "a")),
       Conditional("shown", 1, "", CondNe(<<".", "mode">>, "a")) >>

\* TypedStore.__init__ for the schema SchemaHidden over an empty value
\* document.
InitHidden ==
    /\ schema = Schema(SchemaHidden)
    /\ defaultstore = NoStore
    /\ interfaces = << Interface(TRUE), Interface(FALSE) >>
    /\ tree = setStore
    /\ changed = FALSE
    /\ validnodes = {}
    /\ convertorsfrom = {}
    /\ context = NoContext
    /\ objects = <<>>
    /\ log = <<>>
    /\ lastop = [op |-> "setStore", pos |-> <<>>, value |-> None, name |-> "",
                 position |-> 0, id |-> ""]
    /\ ret = "None"

NextHidden == SetValue \/ ClearValue

SpecHidden == InitHidden /\ [][NextHidden]_vars

\* C36: a node whose element has hidden="True" is hidden (isHidden() is
\* true) in every state, with or without a condition on the element and
\* whatever the condition evaluates to.
C36_HiddenStaysHidden ==
    \A p \in Positions(tree) : Sch[NodeAt(tree, p).el].hidden => isHidden(tree, p)

\* ---------------------------------------------------------------------
\* The changed flag of the store
\* ---------------------------------------------------------------------

\* A schema with a value "mode", a value "U" whose unit is the value of
\* "mode", and an element shown while "mode" is a.
SchemaChanged ==
    << Element("root", 0, ""),
       Element("mode", 1, "string"),
       [Element("U", 1, "string") EXCEPT !.unit = <<"mode">>],
       Conditional("x", 1, "", CondEq(<<".", "mode">>, "a")) >>

\* The store with default values for that schema: "mode" is b, "U" is a.
DefaultsOfSchemaChanged ==
    [NewNode(1, TRUE, "") EXCEPT
        !.children = << WithValue(NewNode(2, FALSE, ""), "b"),
                        WithValue(NewNode(3, FALSE, ""), "a"),
                        NewNode(4, FALSE, "") >>]

\* TypedStore.hasChanged for a store without linked objects in its context.
hasChanged == changed

\* A store over an empty value document with the default store attached
\* and one interface.
InitChanged ==
    /\ schema = Schema(SchemaChanged)
    /\ defaultstore = DefaultsOfSchemaChanged
    /\ interfaces = << Interface(TRUE) >>
    /\ tree = setStore
    /\ changed = FALSE
    /\ validnodes = {}
    /\ convertorsfrom = {}
    /\ context = NoContext
    /\ objects = <<>>
    /\ log = <<>>
    /\ lastop = [op |-> "setStore", pos |-> <<>>, value |-> None, deny |-> {}]
    /\ ret = "None"

\* store.setStore(None): the store is built anew over an empty document.
SetStoreChanged ==
    /\ tree' = setStore
    /\ changed' = FALSE
    /\ log' = <<>>
    /\ ret' = "None"
    /\ lastop' = [op |-> "setStore", pos |-> <<>>, value |-> None, deny |-> {}]
    /\ UNCHANGED <<schema, defaultstore, interfaces, validnodes, convertorsfrom, context,
                   objects>>

\* store.resetChanged().
ResetChanged ==
    /\ changed' = FALSE
    /\ log' = <<>>
    /\ ret' = "None"
    /\ lastop' = [op |-> "resetChanged", pos |-> <<>>, value |-> None, deny |-> {}]
    /\ UNCHANGED <<schema, tree, defaultstore, interfaces, validnodes, convertorsfrom,
                   context, objects>>

\* node.setValue(v), v a value or None, with the interfaces of deny
\* refusing the change.
SetValueChanged ==
    \E p \in Positions(tree), v \in Values \cup {None}, deny \in SUBSET (1..Len(interfaces)) :
        /\ canHaveValue(NodeAt(tree, p).el)
        /\ \E r \in {setValueOrClear(Begin, p, v, deny)} :
               /\ Finish(r)
               /\ ret' = IF v = None /\ r.ret # "raised" THEN "None" ELSE r.ret
        /\ lastop' = [op |-> "setValue", pos |-> p, value |-> v, deny |-> deny]

\* node.clearValue() with the interfaces of deny refusing the change.
ClearValueChanged ==
    \E p \in Positions(tree), deny \in SUBSET (1..Len(interfaces)) :
        /\ \E r \in {clearValue(Begin, p, deny)} : Finish(r) /\ ret' = r.ret
        /\ lastop' = [op |-> "clearValue", pos |-> p, value |-> None, deny |-> deny]

\* node.getValue(usedefault=...): a read.
GetValueChanged ==
    \E p \in Positions(tree), usedefault \in BOOLEAN :
        /\ canHaveValue(NodeAt(tree, p).el)
        /\ ret' = IF ValueOf(tree, p, usedefault) = None THEN "None" ELSE "value"
        /\ log' = <<>>
        /\ lastop' = [op |-> "getValue", pos |-> p, value |-> ValueOf(tree, p, usedefault),
                      deny |-> {}]
        /\ UNCHANGED <<schema, tree, defaultstore, interfaces, changed, validnodes,
                       convertorsfrom, context, objects>>

\* store.validate(usedefault=..., repair=0, usehistory=False) for all nodes.
ValidateChanged ==
    \E usedefault \in BOOLEAN :
        \E r \in {validate(Begin, getDescendants(tree, <<>>), usedefault, 0, {}, {})} :
            /\ Finish(r)
            /\ ret' = IF r.st.err THEN "raised" ELSE "errors"
            /\ lastop' = [op |-> "validate", pos |-> <<>>, value |-> None, deny |-> {}]

\* node.setValue(v) on a node of the default store.
SetDefaultValueChanged ==
    \E dp \in {q \in Positions(defaultstore) : canHaveValue(NodeAt(defaultstore, q).el)},
       v \in Values :
        /\ \E r \in {setValue([tree |-> defaultstore, changed |-> FALSE, log |-> <<>>,
                               err |-> FALSE], dp, v, {})} :
               /\ r.ret = "True"
               /\ defaultstore' = r.st.tree
               /\ \E s \in {onDefaultChange(
                                [Begin EXCEPT !.tree = WithDefaultStore(tree, r.st.tree)],
                                dp, "value")} :
                      /\ tree' = WithoutDefaultStore(s.tree)
                      /\ log' = s.log
                      /\ changed' = s.changed
                      /\ ret' = IF s.err THEN "raised" ELSE "True"
        /\ UNCHANGED <<schema, interfaces, validnodes, convertorsfrom, context, objects>>
        /\ lastop' = [op |-> "setDefaultValue", pos |-> dp, value |-> v, deny |-> {}]

NextChanged ==
    \/ SetStoreChanged
    \/ ResetChanged
    \/ SetValueChanged
    \/ ClearValueChanged
    \/ GetValueChanged
    \/ ValidateChanged
    \/ SetDefaultValueChanged

SpecChanged == InitChanged /\ [][NextChanged]_vars

\* hasChanged() is false directly after setStore and after resetChanged.
FalseAfterReset ==
    [][lastop'.op \in {"setStore", "resetChanged"} => ~hasChanged']_vars

\* hasChanged() is true after a setValue or clearValue that changed the
\* value document, and stays true until setStore or resetChanged.
TrueAfterCommit ==
    [][/\ lastop'.op \in {"setValue", "clearValue"} /\ tree' # tree => hasChanged'
       /\ hasChanged /\ lastop'.op \notin {"setStore", "resetChanged"} => hasChanged']_vars

\* hasChanged() is left as it is by a setValue or clearValue that changes
\* nothing (refused by an interface, or the value is the same), by a read
\* and by validate(repair=0).
FalseAcrossNoChange ==
    [][\/ lastop'.op \in {"getValue", "validate"}
       \/ lastop'.op \in {"setValue", "clearValue"} /\ tree' = tree
       => hasChanged' = hasChanged]_vars

\* hasChanged() is left as it is by a change made in the default store.
FalseAcrossDefaultChange ==
    [][lastop'.op = "setDefaultValue" => hasChanged' = hasChanged]_vars

\* C37: for a store without linked sub-stores, hasChanged() is false
\* directly after setStore and after resetChanged, true after any setValue
\* or clearValue that committed a change since then, and stays false across
\* refused calls, setValue calls that change nothing, reads,
\* validate(repair=0) and changes made in the default store.
C37_ChangedFlag ==
    /\ FalseAfterReset
    /\ TrueAfterCommit
    /\ FalseAcrossNoChange
    /\ FalseAcrossDefaultChange

\* ---------------------------------------------------------------------
\* Node.copyFrom
\* ---------------------------------------------------------------------

\* A schema with a value "v" and a repeatable value "item".
SchemaCopy ==
    << Element("root", 0, ""),
       Element("v", 1, "string"),
       Repeatable("item", 1, "string") >>

\* The items a source store may hold: each with a secondary id or none,
\* and with a value or none.
SourceItems == {[id |-> i, val |-> v] : i \in {""} \cup SecIds, v \in {None, "a"}}

\* The sequences of at most MaxClones items in which no secondary id
\* occurs twice.
SourceItemLists ==
    {q \in UNION {[1..k -> SourceItems] : k \in 0..MaxClones} :
        \A i, j \in 1..Len(q) : i # j /\ q[i].id # "" => q[i].id # q[j].id}

\* The store of another document of the schema SchemaCopy: "v" with the
\* value val (None: without a value) and the items of the list.
SourceTree(val, items) ==
    [NewNode(1, TRUE, "") EXCEPT
        !.children = << IF val = None THEN NewNode(2, FALSE, "")
                        ELSE WithValue(NewNode(2, FALSE, ""), val) >>
                      \o [i \in 1..Len(items) |->
                            IF items[i].val = None THEN NewNode(3, TRUE, items[i].id)
                            ELSE WithValue(NewNode(3, TRUE, items[i].id), items[i].val)]]

SourceTrees == {SourceTree(val, items) : val \in {None, "a"}, items \in SourceItemLists}

\* The end of Node.copyFrom with replaceRemoveOldChildren: of the children
\* that the node at p had at the start and that no child of the source was
\* matched to (oldchildren, a flag for each child), those that can have
\* clones are removed, from the first to the last.
RECURSIVE removeOldChildren(_, _, _)
removeOldChildren(st, p, oldchildren) ==
    LET left == {i \in 1..Len(oldchildren) : oldchildren[i]} IN
    IF left = {} \/ st.err THEN st
    ELSE LET i == CHOOSE i \in left : \A j \in left : i <= j IN
         IF canHaveClones(NodeAt(st.tree, Append(p, i)).el)
         THEN Then(removeChildNode(st, Append(p, i)), LAMBDA s :
                   removeOldChildren(s, p, RemoveAt(oldchildren, i)))
         ELSE removeOldChildren(st, p, [oldchildren EXCEPT ![i] = FALSE])

RECURSIVE copyFrom(_, _, _, _)
RECURSIVE copyChildren(_, _, _, _, _, _)

\* The loop of Node.copyFrom over the children of the source node at sp of
\* the tree `source`, from its k-th child on.  The own child for a source
\* child that can have clones is the one with the same secondary id, or,
\* when the source child has none, the one with the same index among the
\* children of that name; it is created when there is none.  The own child
\* for any other source child is the child of that name.  The own child
\* copies from the source child and is no longer one of oldchildren.
copyChildren(st, p, source, sp, k, oldchildren) ==
    IF k > Len(NodeAt(source, sp).children) \/ st.err
    THEN [st |-> st, oldchildren |-> oldchildren]
    ELSE LET sourcechild == NodeAt(source, Append(sp, k))
             childname == getId(sourcechild)
             index == OccurrenceIndex(source, Append(sp, k))
             secid == sourcechild.id
             before == Len(NodeAt(st.tree, p).children)
         IN  Then(IF canHaveClones(sourcechild.el)
                  THEN IF secid # "" THEN getChildByIdCreate(st, p, childname, secid)
                       ELSE getChildByNumberCreate(st, p, childname, index)
                  ELSE Result(st, "node"),
                  LAMBDA r :
             Then(NodeAt(r.st.tree, p), LAMBDA n :
             Then(IF r.ret # "node" THEN 0
                  ELSE IF ~canHaveClones(sourcechild.el) THEN FirstChild(n, childname)
                  ELSE IF secid # "" THEN getChildById(n, childname, secid)
                  ELSE getChildByNumber(n, childname, index),
                  LAMBDA child :
             IF r.st.err THEN [st |-> r.st, oldchildren |-> oldchildren]
             ELSE IF child = 0 THEN copyChildren(r.st, p, source, sp, k + 1, oldchildren)
             ELSE LET created == Len(n.children) - before
                      old == SubSeq(oldchildren, 1, child - created)
                             \o [i \in 1..created |-> FALSE]
                             \o SubSeq(oldchildren, child - created + 1, Len(oldchildren))
                  IN  Then(copyFrom(r.st, Append(p, child), source, Append(sp, k)),
                           LAMBDA s :
                           copyChildren(s, p, source, sp, k + 1,
                                        [old EXCEPT ![child] = FALSE])))))

\* Node.copyFrom(sourcenode, replace=replaceAlways) on the node at p, the
\* source node being the node at sp of the tree `source`, no interface
\* refusing a change: the value of the source node is set (None: the value
\* is cleared) when both nodes can have a value, then the children copy
\* from the children of the source, then the unmatched children go.
copyFrom(st, p, source, sp) ==
    Then(IF canHaveValue(NodeAt(st.tree, p).el) /\ canHaveValue(NodeAt(source, sp).el)
         THEN setValueOrClear(st, p, getValue(source, sp), {}).st
         ELSE st,
         LAMBDA s1 :
    IF s1.err THEN s1
    ELSE Then(copyChildren(s1, p, source, sp, 1,
                           [i \in 1..Len(NodeAt(s1.tree, p).children) |-> TRUE]),
              LAMBDA c :
              IF c.st.err THEN c.st ELSE removeOldChildren(c.st, p, c.oldchildren)))

\* A store of the schema SchemaCopy over an empty value document.
InitCopy ==
    /\ schema = Schema(SchemaCopy)
    /\ defaultstore = NoStore
    /\ interfaces = << Interface(TRUE) >>
    /\ tree = setStore
    /\ changed = FALSE
    /\ validnodes = {}
    /\ convertorsfrom = {}
    /\ context = NoContext
    /\ objects = <<>>
    /\ log = <<>>
    /\ lastop = [op |-> "setStore", source |-> NoStore]
    /\ ret = "None"

\* store.root.copyFrom(source.root) for a source store of the same schema.
CopyFrom ==
    \E source \in SourceTrees :
        /\ \E s \in {copyFrom(Begin, <<>>, source, <<>>)} :
               /\ Finish([st |-> s])
               /\ ret' = IF s.err THEN "raised" ELSE "None"
        /\ lastop' = [op |-> "copyFrom", source |-> source]

NextCopy == CopyFrom

SpecCopy == InitCopy /\ [][NextCopy]_vars

\* The target node t equals the source node s: the same explicit value or
\* none in both, as many children in the same order, each of the same name
\* and secondary id as the source child in its place and equal to it.
RECURSIVE SameSubtree(_, _)
SameSubtree(t, s) ==
    /\ t.el = s.el
    /\ canHaveValue(t.el) => getValue(t, <<>>) = getValue(s, <<>>)
    /\ Len(t.children) = Len(s.children)
    /\ \A i \in 1..Len(t.children) :
          /\ (canHaveClones(s.children[i].el) => t.children[i].id = s.children[i].id)
          /\ SameSubtree(t.children[i], s.children[i])

\* The values of the nodes that cannot have clones are those of the source.
SameValuesOutsideClones ==
    lastop.op = "copyFrom" /\ ret # "raised" =>
        \A i \in 1..Len(tree.children) :
            ~canHaveClones(tree.children[i].el) =>
                getValue(tree, <<i>>) = getValue(lastop.source, <<i>>)

\* C38: after target.copyFrom(source, replace=replaceAlways) between
\* subtrees of the same schema, no interface refusing a change, the target
\* subtree equals the source subtree: per name as many repeatable children
\* in the same order, and the same explicit value or none in every node
\* that can have a value.
C38_CopyEqualsSource ==
    lastop.op = "copyFrom" => ret # "raised" /\ SameSubtree(tree, lastop.source)

\* ---------------------------------------------------------------------
\* The order of siblings in the Node tree and in the value document
\* ---------------------------------------------------------------------

\* A schema with two repeatable values around a value that occurs once.
SchemaOrder ==
    << Element("root", 0, ""),
       Repeatable("a", 1, "string"),
       Element("fix", 1, "string"),
       Repeatable("b", 1, "string") >>

\* The secondary ids of the clones, telling the clones of a name apart.
OrderIds == {"p", "q", "r"}

\* The child elements of the document element, in document order: the
\* value roots of the children of the root node.
documentOf(t) == IF "document" \in DOMAIN t THEN t.document ELSE <<>>

\* Tree t over a document element with the child elements d.
WithDocument(t, d) ==
    [f \in DOMAIN t \cup {"document"} |-> IF f = "document" THEN d ELSE t[f]]

\* The value root of node n as an element of the document.
ValueRoot(n) == [name |-> getId(n), id |-> n.id, text |-> None, children |-> <<>>]

\* The place of element x in the list of elements d.
PlaceOf(d, x) == CHOOSE i \in 1..Len(d) : d[i] = x

\* The lists of at most MaxClones clone elements, in any order of names,
\* no two of a name with the same id.
DocumentsOrder ==
    {d \in SeqsUpTo({[name |-> n, id |-> i, text |-> None, children |-> <<>>] :
                        n \in {"a", "b"}, i \in OrderIds}, MaxClones) :
        \A i, j \in 1..Len(d) : i # j => d[i] # d[j]}

\* The document element over the child elements d.
DocumentElement(d) == [name |-> "root", id |-> "", text |-> None, children |-> d]

\* The value document after self.addChild(childname, position, id) on the
\* root node n with the child elements d: the new element is appended to
\* the value root when the position is the number of children of that name
\* (or is not given), and else is inserted before the value root of the
\* child that is now at that place.
addChildDocument(n, d, childname, position, id) ==
    LET same == Named(n, childname)
        existingcount == Cardinality(same)
        pos == IF position = -1 THEN existingcount ELSE position
        first == CHOOSE i \in same : \A j \in same : i <= j
        node == [name |-> childname, id |-> id, text |-> None, children |-> <<>>]
    IN  IF pos >= existingcount THEN Append(d, node)
        ELSE InsertAt(d, PlaceOf(d, ValueRoot(n.children[first + pos])), node)

\* TypedStore.__init__ for the schema SchemaOrder over an empty value
\* document.
InitOrder ==
    /\ schema = Schema(SchemaOrder)
    /\ defaultstore = NoStore
    /\ interfaces = << Interface(TRUE) >>
    /\ tree = WithDocument(setStore, <<>>)
    /\ changed = FALSE
    /\ validnodes = {}
    /\ convertorsfrom = {}
    /\ context = NoContext
    /\ objects = <<>>
    /\ log = <<>>
    /\ lastop = [op |-> "setStore", name |-> "", position |-> 0, id |-> ""]
    /\ ret = "None"

\* store.setStore(valueroot) with a value document of the schema.
SetStoreOrder ==
    \E d \in DocumentsOrder :
        /\ \E st \in {setStoreFrom(DocumentElement(d))} :
               /\ tree' = WithDocument(st.tree, d)
               /\ changed' = st.changed
               /\ log' = st.log
        /\ ret' = "None"
        /\ lastop' = [op |-> "setStore", name |-> "", position |-> 0, id |-> ""]
        /\ UNCHANGED <<schema, defaultstore, interfaces, validnodes, convertorsfrom, context,
                       objects>>

\* root.addChild(name, position, id) for a clone (position -1: none given),
\* while the root has fewer than MaxClones children of that name.
AddChildOrder ==
    \E name \in CloneNames(1), id \in OrderIds :
        \E position \in -1..(Cardinality(Named(tree, name)) + 1) :
            /\ Cardinality(Named(tree, name)) < MaxClones
            /\ \E r \in {addChild(Begin, <<>>, name, position, id)} :
                   /\ tree' = IF r.ret = "node"
                              THEN WithDocument(r.st.tree,
                                       addChildDocument(tree, documentOf(tree), name,
                                                        position, id))
                              ELSE r.st.tree
                   /\ changed' = r.st.changed
                   /\ log' = r.st.log
                   /\ ret' = r.ret
            /\ lastop' = [op |-> "addChild", name |-> name, position |-> position, id |-> id]
            /\ UNCHANGED <<schema, defaultstore, interfaces, validnodes, convertorsfrom,
                           context, objects>>

\* root.removeChild(name, index) for a clone: the value root of the removed
\* node leaves the document.
RemoveChildOrder ==
    \E name \in CloneNames(1), index \in 0..(MaxClones - 1) :
        /\ \E r \in {removeChild(Begin, <<>>, name, index)} :
               /\ tree' = IF getChildByNumber(tree, name, index) # 0 /\ ~r.st.err
                          THEN WithDocument(r.st.tree,
                                   RemoveAt(documentOf(tree),
                                       PlaceOf(documentOf(tree),
                                           ValueRoot(tree.children[
                                               getChildByNumber(tree, name, index)]))))
                          ELSE r.st.tree
               /\ changed' = r.st.changed
               /\ log' = r.st.log
               /\ ret' = r.ret
        /\ lastop' = [op |-> "removeChild", name |-> name, position |-> index, id |-> ""]
        /\ UNCHANGED <<schema, defaultstore, interfaces, validnodes, convertorsfrom,
                       context, objects>>

NextOrder == SetStoreOrder \/ AddChildOrder \/ RemoveChildOrder

SpecOrder == InitOrder /\ [][NextOrder]_vars

\* The names and ids of the children of node n, in their order.
SiblingOrder(n) == [i \in 1..Len(n.children) |-> <<n.children[i].el, n.children[i].id>>]

\* The children of a node are in the order of their elements in the
\* schema: the children of a name are next to each other, the names in
\* the order of declaration.
GroupedInSchemaOrder ==
    \A p \in Positions(tree) :
        \A i, j \in 1..Len(NodeAt(tree, p).children) :
            i < j => NodeAt(tree, p).children[i].el <= NodeAt(tree, p).children[j].el

\* The tree built anew from the value document has the siblings in the
\* same order.
RebuiltInSameOrder ==
    SiblingOrder(NodeFromValue(1, DocumentElement(documentOf(tree)), "att"))
        = SiblingOrder(tree)

\* addChild(name, position, id) that returns a node has put it at
\* occurrence index position among the children of its name (after the last
\* one when no position is given) and has left the other children in their
\* order.
AddedInPlace ==
    [][lastop'.op = "addChild" /\ ret' = "node" =>
          \E i \in 1..Len(tree'.children) :
              /\ SiblingOrder(tree')[i] = <<ChildElement(1, lastop'.name), lastop'.id>>
              /\ OccurrenceIndex(tree', <<i>>)
                    = (IF lastop'.position = -1 THEN Cardinality(Named(tree, lastop'.name))
                       ELSE lastop'.position)
              /\ RemoveAt(SiblingOrder(tree'), i) = SiblingOrder(tree)]_vars

\* C39: after construction and any sequence of addChild and removeChild the
\* children of every node are grouped by name in the order of the schema
\* and the tree built anew from the value document has the same order of
\* siblings; addChild(name, position) puts the new node at occurrence index
\* position among the children of its name, after the last one when no
\* position is given, and does not reorder the others.
C39_SiblingOrder ==
    /\ [](GroupedInSchemaOrder /\ RebuiltInSameOrder)
    /\ AddedInPlace

\* A node was inserted before another of its name while children of the
\* other names are there.
C39_Witness ==
    /\ lastop.op = "addChild" /\ ret = "node" /\ lastop.position = 0
    /\ Cardinality(Named(tree, lastop.name)) > 1
    /\ Named(tree, "a") # {} /\ Named(tree, "b") # {}

\* ---------------------------------------------------------------------
\* Repair at level 2, then validation
\* ---------------------------------------------------------------------

\* A default store for SchemaValidate whose value for sel is the disabled
\* option: sel is "b" and n is "5".
DefaultsDisabledOption ==
    [NewNode(1, TRUE, "") EXCEPT
        !.children = << WithValue(NewNode(2, FALSE, ""), "b"),
                        WithValue(NewNode(3, FALSE, ""), "5"),
                        NewNode(4, FALSE, "") >>]

\* A store of the schema SchemaValidate over an empty value document,
\* without default store, with one whose values are valid, or with one
\* whose value for sel is a disabled option.
InitRepair ==
    /\ schema = Schema(SchemaValidate)
    /\ defaultstore \in {NoStore, DefaultsOfSchemaValidate, DefaultsDisabledOption}
    /\ interfaces = << Interface(TRUE), Interface(FALSE) >>
    /\ tree = setStore
    /\ changed = FALSE
    /\ validnodes = {}
    /\ convertorsfrom = {}
    /\ context = NoContext
    /\ objects = <<>>
    /\ log = <<>>
    /\ lastop = [op |-> "setStore", pos |-> <<>>, value |-> None, name |-> "",
                 position |-> 0, id |-> "", usedefault |-> FALSE, repair |-> 0,
                 deny |-> {}, errors |-> <<>>, before |-> NoStore]
    /\ ret = "None"

NextRepair == SetValueTyped \/ Validate

SpecRepair == InitRepair /\ [][NextRepair]_vars

\* validate(repair=2) has returned, no interface refusing a change, and
\* validate(repair=0) with the same usedefault is the next call.
ValidateAfterRepair ==
    /\ lastop.op = "validate" /\ lastop.repair = 2 /\ lastop.deny = {} /\ ret # "raised"
    /\ lastop'.op = "validate" /\ lastop'.repair = 0
    /\ lastop'.usedefault = lastop.usedefault

\* The validation after the repair returns its errors, none of them of one
\* of these kinds.
ReportsNone(kinds) ==
    /\ ret' = "errors"
    /\ \A i \in 1..Len(lastop'.errors) : lastop'.errors[i].kind \notin kinds

\* After a repair at level 2 no value is reported as out of bounds.
RepairedBounds == [][ValidateAfterRepair => ReportsNone({"below", "above"})]_vars

\* After a repair at level 2 no value is reported as an absent or disabled
\* option.
RepairedOptions == [][ValidateAfterRepair => ReportsNone({"disabled", "non-existent"})]_vars

\* After a repair at level 2 no value is beyond a bound of its element.
RepairedWithinBounds ==
    (lastop.op = "validate" /\ lastop.repair = 2 /\ lastop.deny = {} /\ ret # "raised") =>
        \A p \in Positions(tree) :
            LET e == NodeAt(tree, p).el
                value == ValueOf(tree, p, lastop.usedefault)
            IN  canHaveValue(e) /\ value # None =>
                   /\ Sch[e].minInclusive # "" => ~LessThan(e, value, Sch[e].minInclusive)
                   /\ Sch[e].maxInclusive # "" => ~LessThan(e, Sch[e].maxInclusive, value)

\* C40: repair at level 2 is complete: after validate(repair=2) on a store
\* with no interface refusing a change, an immediately following
\* validate(repair=0) over the same nodes reports no value out of bounds
\* and no absent or disabled option, also when the default value of a node
\* is missing or is not an enabled option.
C40_RepairIsComplete ==
    /\ RepairedBounds
    /\ RepairedOptions
====
